---- MODULE Spec2Model ----
(***************************************************************************)
(* State-machine model of the BKM-15R control node (ESP32 + ENC28J60):     *)
(* the command ring buffer, the long-poll waiter ring, the status store    *)
(* with its dirty flag, the web task (request handler + notification       *)
(* dispatcher) and the device-link loop.  Revision modelled: version 0.4   *)
(* (src/unnamed/part_001) unless a definition says otherwise.              *)
(***************************************************************************)
EXTENDS Integers, Sequences, FiniteSets, TLC

(***************************************************************************)
(* Program constants                                                       *)
(***************************************************************************)
MAX_QUEUELEN == 8

MAX_WAITERS == 2

\* The eviction age of checkStatusNotification (30000 ms), in clock ticks of
\* 15 s: the model's clock `now` counts such ticks.
WAITER_TIMEOUT == 2

\* NULL: what Queue::pop / peek return on an empty queue.
NULL == [m_commandType |-> "NULL", m_command |-> ""]

\* Contents of the malloc'ed ring before anything was stored in a slot; pop
\* and peek never read a slot that was not written (guarded by m_count).
Unwritten == [m_commandType |-> "unwritten", m_command |-> ""]

Command_t(type, text) == [m_commandType |-> type, m_command |-> text]

(***************************************************************************)
(* template class Queue<T>                                                 *)
(***************************************************************************)
Queue(queueLen) ==
    [m_maxCount  |-> queueLen,
     m_count     |-> 0,
     m_head      |-> 0,
     m_tail      |-> 0,
     m_queueData |-> [i \in 0 .. queueLen - 1 |-> Unwritten]]

QueueGetCount(q) == q.m_count

QueuePeek(q) == IF q.m_count = 0 THEN NULL ELSE q.m_queueData[q.m_tail]

\* Mutant of QueuePop: pops the most recently pushed entry (stack-like).
QueuePop_Lifo(q) ==
    IF q.m_count = 0
    THEN [q |-> q, ret |-> NULL]
    ELSE LET top == (q.m_head + q.m_maxCount - 1) % q.m_maxCount
         IN  [q   |-> [q EXCEPT !.m_head = top, !.m_count = q.m_count - 1],
              ret |-> q.m_queueData[top]]

\* T* pop(T* t): the queue after the call and the value copied to *t
\* (NULL when the queue is empty).
QueuePop(q) ==
    IF q.m_count = 0
    THEN [q |-> q, ret |-> NULL]
    ELSE [q   |-> [q EXCEPT !.m_tail  = IF q.m_tail + 1 >= q.m_maxCount
                                        THEN 0 ELSE q.m_tail + 1,
                            !.m_count = q.m_count - 1],
          ret |-> q.m_queueData[q.m_tail]]

\* Mutant of QueuePush: a push on a full queue overwrites the oldest entry.
QueuePush_Overwrite(q, t) ==
    LET h == IF q.m_head + 1 >= q.m_maxCount THEN 0 ELSE q.m_head + 1
    IN  IF q.m_count + 1 > q.m_maxCount
        THEN [q EXCEPT !.m_queueData[q.m_head] = t, !.m_head = h, !.m_tail = h]
        ELSE [q EXCEPT !.m_queueData[q.m_head] = t, !.m_head = h,
                       !.m_count = q.m_count + 1]

\* void push(T* t)
QueuePush(q, t) ==
    IF q.m_count + 1 > q.m_maxCount
    THEN q
    ELSE [q EXCEPT !.m_queueData[q.m_head] = t,
                   !.m_head  = IF q.m_head + 1 >= q.m_maxCount
                               THEN 0 ELSE q.m_head + 1,
                   !.m_count = q.m_count + 1]

\* The stored entries, oldest first: the m_count slots starting at m_tail.
QueueContents(q) ==
    [i \in 1 .. q.m_count |-> q.m_queueData[(q.m_tail + i - 1) % q.m_maxCount]]

(***************************************************************************)
(* StatusWaiter_t and class WaiterQueue.  A WiFiClient is modelled by the  *)
(* id of the connection it refers to, 0 when it refers to none (never      *)
(* connected, or after stop()).                                            *)
(***************************************************************************)
NoClient == 0

StatusWaiter_t(client, added) == [m_client |-> client, m_added_ms |-> added]

\* What WaiterQueue::pop / peek return on an empty queue.
NullWaiter == [m_client |-> NoClient, m_added_ms |-> -1]

\* WaiterQueue(): m_waiters is default-constructed inside a global object
\* (clients unconnected, timestamps zero-initialised).
WaiterQueue ==
    [m_maxCount |-> MAX_WAITERS,
     m_count    |-> 0,
     m_head     |-> 0,
     m_tail     |-> 0,
     m_waiters  |-> [i \in 0 .. MAX_WAITERS - 1 |-> StatusWaiter_t(NoClient, 0)]]

\* Mutant of WaiterGetCount: the count is reported one too low.
WaiterGetCount_OneLess(q) == IF q.m_count > 0 THEN q.m_count - 1 ELSE 0

WaiterGetCount(q) == q.m_count

WaiterPeek(q) == IF q.m_count = 0 THEN NullWaiter ELSE q.m_waiters[q.m_tail]

\* Mutant of WaiterPop: the slot's own client is not stopped, so the slot keeps
\* referring to the connection after the entry was handed out.
WaiterPop_NoStop(q) ==
    IF q.m_count = 0
    THEN [q |-> q, ret |-> NullWaiter]
    ELSE [q   |-> [q EXCEPT !.m_tail  = IF q.m_tail + 1 >= q.m_maxCount
                                        THEN 0 ELSE q.m_tail + 1,
                            !.m_count = q.m_count - 1],
          ret |-> q.m_waiters[q.m_tail]]

\* StatusWaiter_t* pop(StatusWaiter_t& t): t receives a copy of the slot at
\* m_tail, then the slot's client is stopped (it lets go of the connection;
\* the copy in t still refers to it).
WaiterPop(q) ==
    IF q.m_count = 0
    THEN [q |-> q, ret |-> NullWaiter]
    ELSE [q   |-> [q EXCEPT !.m_waiters[q.m_tail].m_client = NoClient,
                            !.m_tail  = IF q.m_tail + 1 >= q.m_maxCount
                                        THEN 0 ELSE q.m_tail + 1,
                            !.m_count = q.m_count - 1],
          ret |-> q.m_waiters[q.m_tail]]

\* void push(StatusWaiter_t& t): the entry is stored at m_tail (not at m_head),
\* m_head and m_count advance.
WaiterPush(q, t) ==
    IF q.m_count + 1 > q.m_maxCount
    THEN q
    ELSE [q EXCEPT !.m_waiters[q.m_tail] = t,
                   !.m_head  = IF q.m_head + 1 >= q.m_maxCount
                               THEN 0 ELSE q.m_head + 1,
                   !.m_count = q.m_count + 1]

\* The connections the registry's slots refer to.
WaiterClients(q) ==
    { q.m_waiters[i].m_client : i \in 0 .. q.m_maxCount - 1 } \ {NoClient}

(***************************************************************************)
(* State_t, the status words and their decoding                            *)
(***************************************************************************)
\* w & mask # 0, for a mask that is a single bit.
BitSet(w, mask) == (w \div mask) % 2 = 1

\* State_t currentState = { false, false, false, false } (the rest zeroed).
InitialState_t ==
    [m_linkUp |-> FALSE, m_connected |-> FALSE, m_isValid |-> FALSE,
     m_isPowered |-> FALSE, m_scanmode |-> FALSE, m_hdelay |-> FALSE,
     m_vdelay |-> FALSE, m_charmute |-> FALSE, m_monochrome |-> FALSE,
     m_marker |-> FALSE, m_extsync |-> FALSE, m_apt |-> FALSE,
     m_chromaup |-> FALSE, m_aspect |-> FALSE, m_coltemp |-> FALSE,
     m_comb |-> FALSE, m_blueonly |-> FALSE, m_rcutoff |-> FALSE,
     m_gcutoff |-> FALSE, m_bcutoff |-> FALSE, m_man_phase |-> FALSE,
     m_man_chroma |-> FALSE, m_man_bright |-> FALSE, m_man_contrast |-> FALSE]

\* The "unknown" status words 0xFFFF that connectMonitor stores.
UnknownWords == <<65535, 65535, 65535, 65535, 65535>>

\* Mutant of StatusWord: the word is read one byte early (the separator and
\* the first three digits).
StatusWord_OffByOne(resp, off) ==
    ( (resp[off] - 48) * 4096 + (resp[off + 1] - 48) * 256
    + (resp[off + 2] - 48) * 16 + (resp[off + 3] - 48) ) % 65536

\* One 16-bit status word from the four bytes at 0-based offset off of the
\* response (a sequence indexed from 1): ((b - 0x30) << 12) + ... kept in
\* a uint16_t.
StatusWord(resp, off) ==
    ( (resp[off + 1] - 48) * 4096 + (resp[off + 2] - 48) * 256
    + (resp[off + 3] - 48) * 16 + (resp[off + 4] - 48) ) % 65536

\* statusw1 .. statusw5 of a 53-byte response.
DecodeWords(resp) ==
    <<StatusWord(resp, 29), StatusWord(resp, 34), StatusWord(resp, 39),
      StatusWord(resp, 44), StatusWord(resp, 49)>>

\* The fields updateStatus writes into currentState from the words.
ApplyWords(st, w) ==
    [st EXCEPT
       !.m_isPowered    = BitSet(w[1], 32768),
       !.m_scanmode     = BitSet(w[1], 1024),
       !.m_hdelay       = BitSet(w[1], 512),
       !.m_vdelay       = BitSet(w[1], 256),
       !.m_monochrome   = BitSet(w[1], 128),
       !.m_charmute     = BitSet(w[1], 64),
       !.m_marker       = BitSet(w[1], 32),
       !.m_extsync      = BitSet(w[1], 16),
       !.m_apt          = BitSet(w[1], 8),
       !.m_chromaup     = BitSet(w[1], 4),
       !.m_aspect       = BitSet(w[1], 2),
       !.m_coltemp      = BitSet(w[3], 64),
       !.m_comb         = BitSet(w[3], 32),
       !.m_blueonly     = BitSet(w[3], 16),
       !.m_rcutoff      = BitSet(w[3], 4),
       !.m_gcutoff      = BitSet(w[3], 2),
       !.m_bcutoff      = BitSet(w[3], 1),
       !.m_man_phase    = BitSet(w[4], 128),
       !.m_man_chroma   = BitSet(w[4], 64),
       !.m_man_bright   = BitSet(w[4], 32),
       !.m_man_contrast = BitSet(w[4], 16),
       !.m_isValid      = TRUE]

\* The receive of updateStatus timed out (RECV_TIMEOUT passed with fewer than
\* 53 bytes available).
RecvTimeout == <<>>

\* A 53-byte status response: 29 bytes of header and keyword, then five
\* groups of four digit bytes, each group preceded by a separator byte.
StatusResponse(d1, d2, d3, d4, d5) ==
    [i \in 1 .. 29 |-> 0] \o d1 \o <<32>> \o d2 \o <<32>> \o d3 \o <<32>>
                          \o d4 \o <<32>> \o d5

\* The responses the monitor gives in the model: powered on with manual
\* phase, and standby.  Bytes are ASCII digits '0'..'9' and ':'..'?'.
MonitorResponses ==
    { StatusResponse(<<56, 48, 48, 48>>, <<48, 48, 48, 48>>, <<48, 48, 52, 48>>,
                     <<48, 48, 56, 48>>, <<48, 48, 48, 48>>),
      StatusResponse(<<48, 48, 48, 48>>, <<48, 48, 48, 48>>, <<48, 48, 48, 48>>,
                     <<48, 48, 48, 48>>, <<48, 48, 48, 48>>) }

(***************************************************************************)
(* Arduino String operations used by handleReq (indices are 0-based)       *)
(***************************************************************************)
CharAt(s, i) == SubSeq(s, i + 1, i + 1)

\* String::startsWith
StartsWith(s, prefix) ==
    Len(s) >= Len(prefix) /\ SubSeq(s, 1, Len(prefix)) = prefix

\* String::indexOf(ch, fromIndex): -1 when fromIndex is past the end or ch
\* does not occur from there on.
RECURSIVE IndexOf(_, _, _)
IndexOf(s, ch, from) ==
    IF from >= Len(s) THEN -1
    ELSE IF CharAt(s, from) = ch THEN from
    ELSE IndexOf(s, ch, from + 1)

\* String::substring(left, right): [left, right), the bounds swapped when
\* left > right and right cut to the length.
Substring(s, left, right) ==
    LET l == IF left > right THEN right ELSE left
        r == IF left > right THEN left ELSE right
        e == IF r > Len(s) THEN Len(s) ELSE r
    IN  IF l >= Len(s) THEN "" ELSE SubSeq(s, l + 1, e)

\* String::substring(left)
SubstringFrom(s, left) == Substring(s, left, Len(s))

DigitChars == <<"0", "1", "2", "3", "4", "5", "6", "7", "8", "9">>

IsDigit(c) == \E d \in 1 .. 10 : DigitChars[d] = c

DigitValue(c) == (CHOOSE d \in 1 .. 10 : DigitChars[d] = c) - 1

\* The value of the run of digits of s starting at 0-based index i, given the
\* value acc of the digits before it.
RECURSIVE DigitsValue(_, _, _)
DigitsValue(s, i, acc) ==
    IF i < Len(s) /\ IsDigit(CharAt(s, i))
    THEN DigitsValue(s, i + 1, acc * 10 + DigitValue(CharAt(s, i)))
    ELSE acc

\* String::toInt, that is atol: an optional sign, then the leading digits;
\* 0 when there are none.
ToInt(s) ==
    IF Len(s) > 0 /\ CharAt(s, 0) = "-" THEN 0 - DigitsValue(s, 1, 0)
    ELSE IF Len(s) > 0 /\ CharAt(s, 0) = "+" THEN DigitsValue(s, 1, 0)
    ELSE DigitsValue(s, 0, 0)

\* The decimal text printf's %d gives for n.
RECURSIVE Decimal(_)
Decimal(n) ==
    IF n < 0 THEN "-" \o Decimal(0 - n)
    ELSE IF n < 10 THEN DigitChars[n + 1]
    ELSE Decimal(n \div 10) \o DigitChars[(n % 10) + 1]

COMMAND_LEN == 25

\* snprintf(buf, size, ...): at most size - 1 characters of the text are kept.
Snprintf(size, text) == IF Len(text) > size - 1 THEN SubSeq(text, 1, size - 1) ELSE text

toggleURL == "/toggle/"

knobURL == "/turnknob/"

infoPushURL == "/infopush/"

statusGetURL == "/statusget"

statusWaitURL == "/statuswait"

\* sizeof(knobURL): the array holds the ten characters and the terminator.
SizeofKnobURL == Len(knobURL) + 1

KnobNames == {"PHASE", "CHROMA", "BRIGHTNESS", "CONTRAST"}

\* What the /turnknob/ branch of handleReq extracts from the URL: the three
\* separators searched from index sizeof(knobURL) + 1 on, and the four
\* parts between them (cut out only once all three separators were found).
KnobFields(url) ==
    LET p  == IndexOf(url, "/", SizeofKnobURL + 1)
        p2 == IndexOf(url, "/", p + 1)
        p3 == IndexOf(url, "/", p2 + 1)
        found == p # -1 /\ p2 # -1 /\ p3 # -1
    IN  [found     |-> found,
         knobstr   |-> IF found THEN Substring(url, Len(knobURL), p) ELSE "",
         posstr    |-> IF found THEN Substring(url, p + 1, p2) ELSE "",
         factor    |-> IF found THEN ToInt(Substring(url, p2 + 1, p3)) ELSE 0,
         value     |-> IF found THEN ToInt(SubstringFrom(url, p3 + 1)) ELSE 0]

\* Mutant of KnobValid: the value (ticks) is not tested against zero.
KnobValid_ValueUnchecked(f) ==
    /\ f.found
    /\ f.knobstr \in KnobNames
    /\ f.posstr \in {"n", "p"}
    /\ f.factor # 0

\* The /turnknob/ branch does not throw: the separators were found, the knob
\* is known, the direction is "n" or "p", factor and value are non-zero.
KnobValid(f) ==
    /\ f.found
    /\ f.knobstr \in KnobNames
    /\ f.posstr \in {"n", "p"}
    /\ f.factor # 0
    /\ f.value # 0

\* What %s prints for a String whose bytes are no text.
StringObject == "<String>"

\* snprintf's %s is handed knobstr itself, a String object, where a char* is
\* expected.  What is printed depends on the layout of String in the core
\* the sketch is built with: the knob's name where the object begins with
\* its characters, else the bytes found at the address read.
KnobPrinted(knobstr) == {knobstr, StringObject}

\* The command the /turnknob/ branch builds with snprintf for a valid
\* request, printed being what %s gave for knobstr.
KnobCommand(f, printed) ==
    Command_t("CT_INFOKNOB",
              Snprintf(COMMAND_LEN,
                       IF f.posstr = "p"
                       THEN "R " \o printed \o " 96/" \o Decimal(f.factor)
                                 \o "/" \o Decimal(f.value)
                       ELSE "R " \o printed \o " 96/-" \o Decimal(f.factor)
                                 \o "/" \o Decimal(f.value)))

\* The parsed request: whether it is valid and, if so, its command.
ParseKnob(url, printed) ==
    LET f == KnobFields(url)
    IN  [valid |-> KnobValid(f),
         cmd   |-> IF KnobValid(f) THEN KnobCommand(f, printed) ELSE NULL]

(***************************************************************************)
(* Bounds of the model                                                     *)
(***************************************************************************)
\* Long-poll connections opened in one behaviour.
MaxClients == 3

\* The clock stops after this many ticks.
MaxTime == 3

(***************************************************************************)
(* State                                                                   *)
(***************************************************************************)
VARIABLES
    commandQueue,     \* Queue<Command_t> commandQueue(MAX_QUEUELEN)
    cqShadow,         \* history: the accepted, not yet popped commands, oldest first
    cmd,              \* loop(): the result of its pop (NULL: nothing popped)
    wire,             \* history: the payloads of the command frames written to the monitor, in order
    inFlight,         \* the requests written to the monitor whose answer loop() still waits for
    status_response,  \* uint8_t status_response[53]
    entered,          \* history: the commands pushed by the request handlers and the key task, in order
    statusWaiters,    \* WaiterQueue statusWaiters
    updateWaiters,    \* bool updateWaiters
    web_pc,           \* where webserverHandler's loop stands
    req,              \* the URL handled in this iteration of webserverHandler
    resp,             \* the status line handleReq wrote to that connection (0: none)
    nextClient,       \* id of the next long-poll connection
    regAt,            \* history: accepted, unanswered long-poll connection -> tick of its registration
    signals,          \* history: long-poll connection -> the status codes of the responses written to it
    owed,             \* history: waiters that were registered and young when the dirty flag was set
    currentState,     \* State_t currentState
    statusUpdated,    \* bool statusUpdated (the dirty flag)
    cachedWords,      \* _statusw1 .. _statusw5
    linkStatus,       \* Ethernet.linkStatus()
    monitorConnected, \* monitorClient.connected()
    dl_pc,            \* where loop() stands
    now,              \* millis(), in ticks
    holder,           \* the task that holds state_sem ("none": the mutex is free)
    lk_pc,            \* task -> where it stands, at the grain of the mutex
    state,            \* addStatus: State_t state, its copy of currentState
    ledPattern,       \* what statusLEDBlinker (or setup) shows on the LED
    boot_pc,          \* where setup() stands ("running": it has returned)
    hardware,         \* Ethernet.hardwareStatus()
    wifiEnabled,      \* bool wifiEnabled (the DISABLE_WIFI pin read by setup)
    settingUp,        \* bool settingUp
    wifiStatus,       \* WiFi.status()
    wifiConnected,    \* bool wifiConnected
    wifi_pc,          \* where wifiConnectionHandler stands
    tasks,            \* the tasks created with xTaskCreatePinnedToCore
    answered,         \* history: a status response was decoded since connectMonitor() began
    attempts,         \* history: the failed connect() calls of the last connectMonitor()
    physicalKeyState, \* uint32_t physicalKeyState, as the set of the keys whose bit is set
    physicalKeyState_prev, \* uint32_t physicalKeyState_prev, likewise
    pushButtonCalls,  \* history: the keys pushButton() was called for in the last cycle of buttonHandler
    ino_commandQueue, \* bkm-15r.ino: CommandQueue_t commandQueue
    ino_cmd,          \* bkm-15r.ino, loop(): Command_t* cmd, the slot it points to (NULL: none)
    ino_pc,           \* bkm-15r.ino: where loop() stands
    ino_popped,       \* history, bkm-15r.ino: the command the slot held when loop() took it
    ino_wire,         \* history, bkm-15r.ino: the commands written to the monitor, in order
    ino_entered,      \* history, bkm-15r.ino: the commands the request handlers stored, in order
    tookDirty,        \* history: checkStatusNotification found statusUpdated set in this call
    lastOp            \* history: the queue operation applied last by the queue driver

\* The variables that stand for what most steps leave alone.
devAux == <<inFlight, status_response>>

lockVars == <<holder, lk_pc, state>>

bootVars == <<boot_pc, hardware, wifiEnabled, settingUp, wifiStatus, wifiConnected, wifi_pc,
              tasks>>

\* What is recorded of the connection attempts and the polls.
histVars == <<answered, attempts>>

\* buttonHandler's samples of the keys.
keyVars == <<physicalKeyState, physicalKeyState_prev, pushButtonCalls>>

\* The command stack and loop() of the revision bkm-15r.ino.
inoVars == <<ino_commandQueue, ino_cmd, ino_pc, ino_popped, ino_wire, ino_entered>>

sideVars == <<keyVars, inoVars, tookDirty>>

sysVars == <<lockVars, bootVars, ledPattern, histVars, sideVars>>

auxVars == <<devAux, entered, sysVars>>

vars == <<commandQueue, cqShadow, cmd, wire, statusWaiters, updateWaiters,
          web_pc, req, resp, nextClient, regAt, signals, owed, currentState,
          statusUpdated, cachedWords, linkStatus, monitorConnected, dl_pc, now,
          lastOp, auxVars>>

queueVars == <<commandQueue, cqShadow>>

waiterVars == <<statusWaiters, updateWaiters, nextClient, regAt, signals>>

storeVars == <<currentState, statusUpdated, cachedWords>>

linkVars == <<linkStatus, monitorConnected, dl_pc, cmd, wire>>

webVars == <<web_pc, req, resp>>

NoUrl == ""

\* The long-poll connections whose registration was accepted.
Accepted == 1 .. nextClient - 1

\* The accepted connections that have had no response yet.
Waiting == DOMAIN regAt

\* uint32_t physicalKeys[NUM_PHYSKEYS][2]: the keys in the order of the
\* table, each with a bit of its own in physicalKeyState.
physicalKeys ==
    <<"INPUT_KEY_0", "INPUT_KEY_1", "INPUT_KEY_2", "INPUT_KEY_3", "INPUT_KEY_4",
      "INPUT_KEY_5", "INPUT_KEY_6", "INPUT_KEY_7", "INPUT_KEY_8", "INPUT_KEY_9",
      "INPUT_KEY_DEL", "INPUT_KEY_ENT", "KEY_POWER", "NAV_KEY_UP", "NAV_KEY_DOWN",
      "NAV_KEY_MENU", "NAV_KEY_ENTER">>

\* The keys whose bit is set in 0xFFFFFFFF: all of them.
AllKeyBits == {physicalKeys[i] : i \in DOMAIN physicalKeys}

\* bkm-15r.ino: #define MAX_QUEUELEN (10)
INO_MAX_QUEUELEN == 10

\* bkm-15r.ino: loop()'s Command_t* cmd = NULL.
InoNull == -1

\* bkm-15r.ino: CommandQueue_t commandQueue, a global and so zeroed:
\* CT_STATUS is 0 and the texts are empty.
InoCommandQueue ==
    [m_commands |-> [i \in 0 .. INO_MAX_QUEUELEN - 1 |-> Command_t("CT_STATUS", "")],
     m_queueLen |-> 0]

\* The tasks setup() creates with WiFi enabled and credentials stored.
RunningTasks == {"webserverHandler", "wifiConnectionHandler", "buttonHandler", "statusLEDBlinker"}

\* The tasks that take state_sem, each at the top of its loop.
IdleTasks ==
    [loop |-> [at |-> "loop", step |-> "out"],
     web  |-> [at |-> "accept", step |-> "out"],
     keys |-> [at |-> "sample", step |-> "out"]]

\* The initial values of the globals and of the environment, but for the
\* command queue and for what setup() decides.
InitGlobals ==
    /\ cmd = NULL
    /\ wire = <<>>
    /\ inFlight = <<>>
    /\ status_response = [i \in 1 .. 53 |-> 0]
    /\ statusWaiters = WaiterQueue
    /\ updateWaiters = FALSE
    /\ web_pc = "accept"
    /\ req = NoUrl
    /\ resp = 0
    /\ nextClient = 1
    /\ regAt = <<>>
    /\ signals = [c \in 1 .. MaxClients |-> <<>>]
    /\ owed = {}
    /\ linkStatus \in {"LinkON", "LinkOFF"}
    /\ statusUpdated = FALSE
    /\ cachedWords = UnknownWords
    /\ monitorConnected = FALSE
    /\ dl_pc = "loop"
    /\ now = 0
    /\ holder = "none"
    /\ lk_pc = IdleTasks
    /\ state = InitialState_t
    /\ lastOp = [op |-> "none", count |-> 0]
    /\ answered = FALSE
    /\ attempts = 0
    /\ physicalKeyState = {}
    /\ physicalKeyState_prev = AllKeyBits
    /\ pushButtonCalls = <<>>
    /\ ino_commandQueue = InoCommandQueue
    /\ ino_cmd = InoNull
    /\ ino_pc = "loop"
    /\ ino_popped = NULL
    /\ ino_wire = <<>>
    /\ ino_entered = <<>>
    /\ tookDirty = FALSE

\* setup() has returned: the Ethernet module answered, the stored
\* credentials were used, WiFi connected and all tasks were created.
InitRunning ==
    /\ boot_pc = "running"
    /\ hardware = "EthernetW5500"
    /\ wifiEnabled = TRUE
    /\ settingUp = FALSE
    /\ wifiStatus = "WL_CONNECTED"
    /\ wifiConnected = TRUE
    /\ wifi_pc = "watch"
    /\ tasks = RunningTasks
    /\ ledPattern = "1 Short"

\* setup(): the state when the tasks start, but for the command queue.
\* currentState.m_linkUp is read from the link layer once.
InitOther ==
    /\ InitGlobals
    /\ InitRunning
    /\ currentState = [InitialState_t EXCEPT !.m_linkUp = (linkStatus = "LinkON")]

\* The state when the tasks start: the command queue is empty.
Init ==
    /\ commandQueue = Queue(MAX_QUEUELEN)
    /\ cqShadow = <<>>
    /\ entered = <<>>
    /\ InitOther

(***************************************************************************)
(* webserverHandler: one request at most per iteration, then               *)
(* checkStatusNotification                                                 *)
(***************************************************************************)
\* webServer.hasClient() is false in this iteration.
WebNoClient ==
    /\ web_pc = "accept"
    /\ web_pc' = "check"
    /\ req' = NoUrl
    /\ resp' = 0
    /\ UNCHANGED <<queueVars, waiterVars, owed, storeVars, linkVars, now, lastOp, auxVars>>

\* handleReq, url.startsWith(toggleURL): the rest of the URL is queued as a
\* CT_STATUS command when the queue has room; 200 OK is written in any case.
HandleToggle(url) ==
    /\ web_pc = "accept"
    /\ StartsWith(url, toggleURL)
    /\ LET c == Command_t("CT_STATUS", SubstringFrom(url, Len(toggleURL)))
       IN  IF QueueGetCount(commandQueue) < MAX_QUEUELEN
           THEN /\ commandQueue' = QueuePush(commandQueue, c)
                /\ cqShadow' = Append(cqShadow, c)
                /\ entered' = Append(entered, c)
           ELSE UNCHANGED <<queueVars, entered>>
    /\ req' = url
    /\ resp' = 200
    /\ web_pc' = "check"
    /\ UNCHANGED <<waiterVars, owed, storeVars, linkVars, now, lastOp, devAux, sysVars>>

\* handleReq, url.startsWith(infoPushURL): as for a toggle, with CT_INFO.
HandleInfoPush(url) ==
    /\ web_pc = "accept"
    /\ ~StartsWith(url, toggleURL)
    /\ StartsWith(url, infoPushURL)
    /\ LET c == Command_t("CT_INFO", SubstringFrom(url, Len(infoPushURL)))
       IN  IF QueueGetCount(commandQueue) < MAX_QUEUELEN
           THEN /\ commandQueue' = QueuePush(commandQueue, c)
                /\ cqShadow' = Append(cqShadow, c)
                /\ entered' = Append(entered, c)
           ELSE UNCHANGED <<queueVars, entered>>
    /\ req' = url
    /\ resp' = 200
    /\ web_pc' = "check"
    /\ UNCHANGED <<waiterVars, owed, storeVars, linkVars, now, lastOp, devAux, sysVars>>

\* handleReq, url.startsWith(statusWaitURL): the connection is stored with
\* the time of the request when the registry has room, else it is answered
\* 503.  A stored connection gets the next unused id.
HandleStatusWait(url) ==
    /\ web_pc = "accept"
    /\ ~StartsWith(url, toggleURL)
    /\ ~StartsWith(url, infoPushURL)
    /\ ~StartsWith(url, statusGetURL)
    /\ StartsWith(url, statusWaitURL)
    /\ WaiterGetCount(statusWaiters) < MAX_WAITERS => nextClient <= MaxClients
    /\ IF WaiterGetCount(statusWaiters) < MAX_WAITERS
       THEN /\ statusWaiters' = WaiterPush(statusWaiters, StatusWaiter_t(nextClient, now))
            /\ regAt' = regAt @@ (nextClient :> now)
            /\ nextClient' = nextClient + 1
            /\ resp' = 0
       ELSE /\ resp' = 503
            /\ UNCHANGED <<statusWaiters, regAt, nextClient>>
    /\ req' = url
    /\ web_pc' = "check"
    /\ UNCHANGED <<queueVars, updateWaiters, signals, owed, storeVars, linkVars, now, lastOp, auxVars>>

\* handleReq, url.startsWith(knobURL): 404 when the request does not parse,
\* else the command is queued and 200 written, or 503 when the queue is full.
HandleTurnKnob(url) ==
    /\ web_pc = "accept"
    /\ ~StartsWith(url, toggleURL)
    /\ ~StartsWith(url, infoPushURL)
    /\ ~StartsWith(url, statusGetURL)
    /\ ~StartsWith(url, statusWaitURL)
    /\ StartsWith(url, knobURL)
    /\ \E printed \in KnobPrinted(KnobFields(url).knobstr) :
       LET k == ParseKnob(url, printed)
       IN  IF ~k.valid
           THEN /\ resp' = 404
                /\ UNCHANGED <<queueVars, entered>>
           ELSE IF QueueGetCount(commandQueue) < MAX_QUEUELEN
           THEN /\ commandQueue' = QueuePush(commandQueue, k.cmd)
                /\ cqShadow' = Append(cqShadow, k.cmd)
                /\ entered' = Append(entered, k.cmd)
                /\ resp' = 200
           ELSE /\ resp' = 503
                /\ UNCHANGED <<queueVars, entered>>
    /\ req' = url
    /\ web_pc' = "check"
    /\ UNCHANGED <<waiterVars, owed, storeVars, linkVars, now, lastOp, devAux, sysVars>>

\* client.println(...) of a whole response: nothing is written through a
\* WiFiClient that refers to no connection.
SendTo(sig, client, msg) ==
    IF client = NoClient THEN sig ELSE [sig EXCEPT ![client] = Append(@, msg)]

RECURSIVE SendAll(_, _, _)
SendAll(sig, ws, msg) ==
    IF ws = <<>> THEN sig
    ELSE SendAll(SendTo(sig, Head(ws).m_client, msg), Tail(ws), msg)

\* while(statusWaiters.getCount() > 0) statusWaiters.pop(w): the registry
\* after the loop and the entries popped, in order.
RECURSIVE DrainWaiters(_, _)
DrainWaiters(q, out) ==
    IF WaiterGetCount(q) > 0
    THEN LET r == WaiterPop(q) IN DrainWaiters(r.q, Append(out, r.ret))
    ELSE [q |-> q, out |-> out]

\* The eviction loop of checkStatusNotification: entries are popped from the
\* tail while the oldest one has been stored for WAITER_TIMEOUT or longer.
RECURSIVE SweepWaiters(_, _, _)
SweepWaiters(q, ms, out) ==
    IF WaiterPeek(q) # NullWaiter /\ ~((ms - WaiterPeek(q).m_added_ms) < WAITER_TIMEOUT)
    THEN LET r == WaiterPop(q) IN SweepWaiters(r.q, ms, Append(out, r.ret))
    ELSE [q |-> q, out |-> out]

\* checkStatusNotification, the part under state_sem: the dirty flag is
\* taken (read and cleared) and remembered in updateWaiters.
CheckStatusLocked ==
    /\ web_pc = "check"
    /\ IF statusUpdated
       THEN /\ statusUpdated' = FALSE
            /\ updateWaiters' = TRUE
       ELSE UNCHANGED <<statusUpdated, updateWaiters>>
    /\ tookDirty' = statusUpdated
    /\ web_pc' = "deliver"
    /\ UNCHANGED <<queueVars, statusWaiters, nextClient, regAt, signals, owed,
                   currentState, cachedWords, linkVars, req, resp, now, lastOp, devAux,
                   entered, lockVars, bootVars, ledPattern, histVars, keyVars, inoVars>>

\* checkStatusNotification, the part after the lock: with waiters stored,
\* either all of them are popped and sent 200 with the status addStatus reads
\* now (updateWaiters), or the timed-out ones are popped and sent 204.  The
\* iteration ends, and with it the request it handled.
CheckStatusDeliver ==
    /\ web_pc = "deliver"
    /\ IF WaiterGetCount(statusWaiters) = 0
       THEN UNCHANGED <<statusWaiters, updateWaiters, signals>>
       ELSE IF updateWaiters
       THEN LET d == DrainWaiters(statusWaiters, <<>>)
            IN  /\ statusWaiters' = d.q
                /\ signals' = SendAll(signals, d.out, [code |-> 200])
                /\ updateWaiters' = FALSE
       ELSE LET d == SweepWaiters(statusWaiters, now, <<>>)
            IN  /\ statusWaiters' = d.q
                /\ signals' = SendAll(signals, d.out, [code |-> 204])
                /\ UNCHANGED updateWaiters
    /\ regAt' = [c \in { d \in DOMAIN regAt : signals'[d] = <<>> } |-> regAt[c]]
    /\ tookDirty' = FALSE
    /\ web_pc' = "accept"
    /\ req' = NoUrl
    /\ resp' = 0
    /\ UNCHANGED <<queueVars, nextClient, owed, storeVars, linkVars, now, lastOp, devAux,
                   entered, lockVars, bootVars, ledPattern, histVars, keyVars, inoVars>>

\* Time passes: millis() advances by one tick.
Tick ==
    /\ now < MaxTime
    /\ now' = now + 1
    /\ UNCHANGED <<queueVars, waiterVars, owed, storeVars, linkVars, webVars, lastOp, auxVars>>

(***************************************************************************)
(* The device link: loop(), waitLink(), connectMonitor(), updateStatus()   *)
(* and the three send functions                                            *)
(***************************************************************************)
\* History kept with every setting of the dirty flag: the waiters that are
\* registered, unanswered and younger than the timeout at that moment.
OwedAfterDirty ==
    owed \cup { c \in Waiting : now - regAt[c] < WAITER_TIMEOUT }

\* Mutant of UpdateStatus: every response that arrives sets the dirty flag.
UpdateStatus_AlwaysDirty(r, st, dirty, cache) ==
    IF r = RecvTimeout
    THEN [st |-> st, dirty |-> dirty, cache |-> cache, changed |-> FALSE]
    ELSE LET w == DecodeWords(r)
         IN  [st |-> ApplyWords(st, w), dirty |-> TRUE, cache |-> w, changed |-> TRUE]

\* updateStatus() for what the receive gave (a response or RecvTimeout): the
\* store, the dirty flag and the cached words after the call.
UpdateStatus(r, st, dirty, cache) ==
    IF r = RecvTimeout
    THEN [st |-> st, dirty |-> dirty, cache |-> cache, changed |-> FALSE]
    ELSE LET w == DecodeWords(r)
         IN  IF w # cache
             THEN [st |-> ApplyWords(st, w), dirty |-> TRUE, cache |-> w,
                   changed |-> TRUE]
             ELSE [st |-> st, dirty |-> dirty, cache |-> cache, changed |-> FALSE]

\* What the monitor can answer to a status request: nothing in time, or, over
\* an established connection with the link up, one of its responses.
PollOutcomes ==
    {RecvTimeout} \cup
    (IF monitorConnected /\ linkStatus = "LinkON" THEN MonitorResponses ELSE {})

\* The payload (after the 12-byte header and the length byte) that
\* sendInfoButtonPacket, sendStatusButtonTogglePacket or sendInfoKnobPacket
\* builds for a command.  button != DEGAUSS_BUTTON compares the address of the
\* command's buffer with that of a literal, so TOGGLE is always appended.
EncodePayload(c) ==
    CASE c.m_commandType = "CT_INFO"     -> "INFObutton " \o c.m_command \o " "
      [] c.m_commandType = "CT_STATUS"   -> "STATset " \o c.m_command \o " TOGGLE"
      [] c.m_commandType = "CT_INFOKNOB" -> "INFOknob " \o c.m_command
      [] OTHER                           -> ""

\* loop() finds the link down and enters waitLink(): the monitor connection
\* is stopped and link-up, connected and valid are cleared in one update.
LoopLinkOff ==
    /\ dl_pc = "loop"
    /\ linkStatus = "LinkOFF"
    /\ monitorConnected' = FALSE
    /\ currentState' = [currentState EXCEPT !.m_linkUp = FALSE,
                                            !.m_connected = FALSE,
                                            !.m_isValid = FALSE]
    /\ statusUpdated' = TRUE
    /\ owed' = OwedAfterDirty
    /\ dl_pc' = "waitLink"
    /\ UNCHANGED <<queueVars, waiterVars, cachedWords, linkStatus, cmd, wire, webVars, now, lastOp, auxVars>>

\* Mutant of WaitLinkUp: link-up is stored without the dirty flag.
WaitLinkUp_NotDirty ==
    /\ dl_pc = "waitLink"
    /\ linkStatus = "LinkON"
    /\ currentState' = [currentState EXCEPT !.m_linkUp = TRUE]
    /\ dl_pc' = "checkConn"
    /\ UNCHANGED <<queueVars, waiterVars, owed, statusUpdated, cachedWords, linkStatus,
                   monitorConnected, cmd, wire, webVars, now, lastOp, auxVars>>

\* Mutant of WaitLinkUp: waitLink() returns without looking at the link.
WaitLinkUp_NoWait ==
    /\ dl_pc = "waitLink"
    /\ currentState' = [currentState EXCEPT !.m_linkUp = TRUE]
    /\ statusUpdated' = TRUE
    /\ owed' = OwedAfterDirty
    /\ dl_pc' = "checkConn"
    /\ UNCHANGED <<queueVars, waiterVars, cachedWords, linkStatus, monitorConnected,
                   cmd, wire, webVars, now, lastOp, auxVars>>

\* waitLink() sees the link up again and returns.
WaitLinkUp ==
    /\ dl_pc = "waitLink"
    /\ linkStatus = "LinkON"
    /\ currentState' = [currentState EXCEPT !.m_linkUp = TRUE]
    /\ statusUpdated' = TRUE
    /\ owed' = OwedAfterDirty
    /\ dl_pc' = "checkConn"
    /\ UNCHANGED <<queueVars, waiterVars, cachedWords, linkStatus, monitorConnected,
                   cmd, wire, webVars, now, lastOp, auxVars>>

\* loop() is at its test of monitorClient.connected().
AtConnectedTest ==
    \/ dl_pc = "loop" /\ linkStatus = "LinkON"
    \/ dl_pc = "checkConn"

\* connectMonitor() up to its connect loop: the words are reset to unknown
\* and a store that says connected is corrected.
ConnectMonitorBegin ==
    /\ AtConnectedTest
    /\ ~monitorConnected
    /\ cachedWords' = UnknownWords
    /\ IF currentState.m_connected
       THEN /\ currentState' = [currentState EXCEPT !.m_connected = FALSE,
                                                    !.m_isValid = FALSE]
            /\ statusUpdated' = TRUE
            /\ owed' = OwedAfterDirty
       ELSE UNCHANGED <<currentState, statusUpdated, owed>>
    /\ dl_pc' = "connect"
    /\ answered' = FALSE
    /\ attempts' = 0
    /\ UNCHANGED <<queueVars, waiterVars, linkStatus, monitorConnected, cmd, wire,
                   webVars, now, lastOp, devAux, entered, lockVars, bootVars, sideVars, ledPattern>>

\* Bound: the failed connection attempts counted in one connectMonitor()
\* (further ones are made and leave the count as it is).
MaxAttempts == 2

\* Mutant of ConnectFail: after MaxAttempts failures connectMonitor() returns
\* to loop() without a connection.
ConnectFail_GiveUp ==
    /\ dl_pc = "connect"
    /\ attempts' = IF attempts < MaxAttempts THEN attempts + 1 ELSE attempts
    /\ dl_pc' = IF attempts < MaxAttempts THEN "connect" ELSE "loop"
    /\ UNCHANGED <<queueVars, waiterVars, owed, storeVars, linkStatus, monitorConnected,
                   cmd, wire, webVars, now, lastOp, devAux, entered, lockVars, bootVars, sideVars,
                   ledPattern, answered>>

\* connectMonitor(): monitorClient.connect() returns something other than 1;
\* after delay(1000) the loop calls it again, whatever the link status.
ConnectFail ==
    /\ dl_pc = "connect"
    /\ attempts' = IF attempts < MaxAttempts THEN attempts + 1 ELSE attempts
    /\ dl_pc' = "connect"
    /\ UNCHANGED <<queueVars, waiterVars, owed, storeVars, linkStatus, monitorConnected,
                   cmd, wire, webVars, now, lastOp, devAux, entered, lockVars, bootVars, sideVars,
                   ledPattern, answered>>

\* connectMonitor(): monitorClient.connect() returns 1 (it can only over a
\* link that is up); until then the loop retries every second.
ConnectSucceed ==
    /\ dl_pc = "connect"
    /\ linkStatus = "LinkON"
    /\ monitorConnected' = TRUE
    /\ currentState' = [currentState EXCEPT !.m_connected = TRUE]
    /\ statusUpdated' = TRUE
    /\ owed' = OwedAfterDirty
    /\ dl_pc' = "firstPoll"
    /\ UNCHANGED <<queueVars, waiterVars, cachedWords, linkStatus, cmd, wire, webVars, now, lastOp, auxVars>>

\* get_status: the payload of the status request.
GetStatusPayload == "STATget CURRENT 5"

\* The updateStatus() call that ends connectMonitor(): the status request is
\* written and the wait for the answer begins.
ConnectFirstPoll ==
    /\ dl_pc = "firstPoll"
    /\ inFlight' = Append(inFlight, GetStatusPayload)
    /\ dl_pc' = "recv"
    /\ UNCHANGED <<queueVars, waiterVars, owed, storeVars, linkStatus, monitorConnected,
                   cmd, wire, webVars, now, lastOp, status_response, entered, sysVars>>

\* Mutant of LoopPop: the command is taken whether or not the monitor is
\* connected.
LoopPop_Unconnected ==
    /\ AtConnectedTest \/ dl_pc = "connect"
    /\ LET r == QueuePop(commandQueue)
       IN  /\ commandQueue' = r.q
           /\ cmd' = r.ret
           /\ cqShadow' = IF cqShadow = <<>> THEN cqShadow ELSE Tail(cqShadow)
           /\ dl_pc' = IF r.ret = NULL THEN "poll" ELSE "send"
    /\ UNCHANGED <<waiterVars, owed, storeVars, linkStatus, monitorConnected, wire,
                   webVars, now, lastOp, auxVars>>

\* Mutant of LoopPop: the newest command is taken.
LoopPop_Newest ==
    /\ AtConnectedTest
    /\ monitorConnected
    /\ LET r == QueuePop_Lifo(commandQueue)
       IN  /\ commandQueue' = r.q
           /\ cmd' = r.ret
           /\ cqShadow' = IF cqShadow = <<>> THEN cqShadow
                          ELSE SubSeq(cqShadow, 1, Len(cqShadow) - 1)
           /\ dl_pc' = IF r.ret = NULL THEN "poll" ELSE "send"
    /\ UNCHANGED <<waiterVars, owed, storeVars, linkStatus, monitorConnected, wire,
                   webVars, now, lastOp, auxVars>>

\* loop(), connected: commandQueue.pop(&c) under state_sem.
LoopPop ==
    /\ AtConnectedTest
    /\ monitorConnected
    /\ LET r == QueuePop(commandQueue)
       IN  /\ commandQueue' = r.q
           /\ cmd' = r.ret
           /\ cqShadow' = IF cqShadow = <<>> THEN cqShadow ELSE Tail(cqShadow)
           /\ dl_pc' = IF r.ret = NULL THEN "poll" ELSE "send"
    /\ UNCHANGED <<waiterVars, owed, storeVars, linkStatus, monitorConnected, wire,
                   webVars, now, lastOp, auxVars>>

\* Mutant of LoopSend: the frame is written and loop() goes on without
\* waiting for the acknowledgement.
LoopSend_NoWait ==
    /\ dl_pc = "send"
    /\ IF monitorConnected
       THEN /\ wire' = Append(wire, EncodePayload(cmd))
            /\ inFlight' = Append(inFlight, EncodePayload(cmd))
       ELSE UNCHANGED <<wire, inFlight>>
    /\ dl_pc' = "poll"
    /\ UNCHANGED <<queueVars, waiterVars, owed, storeVars, linkStatus, monitorConnected,
                   cmd, webVars, now, lastOp, status_response, entered, sysVars>>

\* loop(): the popped command is encoded and written.  When the whole frame
\* was written the wait for the 13-byte acknowledgement begins; a write over
\* a connection that is gone writes nothing and the function returns.
LoopSend ==
    /\ dl_pc = "send"
    /\ IF monitorConnected
       THEN /\ wire' = Append(wire, EncodePayload(cmd))
            /\ inFlight' = Append(inFlight, EncodePayload(cmd))
            /\ dl_pc' = "ack"
       ELSE /\ UNCHANGED <<wire, inFlight>>
            /\ dl_pc' = "poll"
    /\ UNCHANGED <<queueVars, waiterVars, owed, storeVars, linkStatus, monitorConnected,
                   cmd, webVars, now, lastOp, status_response, entered, sysVars>>

\* Mutant of LoopAck: after the wait loop() starts its next iteration without
\* the poll step.
LoopAck_SkipPoll ==
    /\ dl_pc = "ack"
    /\ inFlight' = Tail(inFlight)
    /\ dl_pc' = "loop"
    /\ UNCHANGED <<queueVars, waiterVars, owed, storeVars, linkStatus, monitorConnected,
                   cmd, wire, webVars, now, lastOp, status_response, entered, sysVars>>

\* Mutant of LoopAck: after the wait the command is sent again.
LoopAck_Resend ==
    /\ dl_pc = "ack"
    /\ inFlight' = Tail(inFlight)
    /\ dl_pc' = "send"
    /\ UNCHANGED <<queueVars, waiterVars, owed, storeVars, linkStatus, monitorConnected,
                   cmd, wire, webVars, now, lastOp, status_response, entered, sysVars>>

\* The wait of the send functions ends: 13 bytes are available and read, or
\* RECV_TIMEOUT has passed; loop() ignores which.
LoopAck ==
    /\ dl_pc = "ack"
    /\ inFlight' = Tail(inFlight)
    /\ dl_pc' = "poll"
    /\ UNCHANGED <<queueVars, waiterVars, owed, storeVars, linkStatus, monitorConnected,
                   cmd, wire, webVars, now, lastOp, status_response, entered, sysVars>>

\* loop(): updateStatus() when 150 ms have passed since the last one; the
\* status request is written and the wait for the answer begins.
LoopPoll ==
    /\ dl_pc = "poll"
    /\ \E due \in BOOLEAN :
         IF due
         THEN /\ inFlight' = Append(inFlight, GetStatusPayload)
              /\ dl_pc' = "recv"
         ELSE /\ UNCHANGED inFlight
              /\ dl_pc' = "loop"
    /\ UNCHANGED <<queueVars, waiterVars, owed, storeVars, linkStatus, monitorConnected,
                   cmd, wire, webVars, now, lastOp, status_response, entered, sysVars>>

\* Mutant of PollRecv: the response is compared with unknown words instead of
\* the cached ones.
PollRecv_NoCache(r) ==
    /\ dl_pc = "recv"
    /\ r # RecvTimeout => monitorConnected /\ linkStatus = "LinkON"
    /\ LET u == UpdateStatus(r, currentState, statusUpdated, UnknownWords)
       IN  /\ currentState' = u.st
           /\ statusUpdated' = u.dirty
           /\ cachedWords' = u.cache
           /\ owed' = IF u.changed THEN OwedAfterDirty ELSE owed
    /\ status_response' = IF r = RecvTimeout THEN status_response ELSE r
    /\ answered' = (answered \/ r # RecvTimeout)
    /\ inFlight' = Tail(inFlight)
    /\ dl_pc' = "loop"
    /\ UNCHANGED <<queueVars, waiterVars, linkStatus, monitorConnected, cmd, wire,
                   webVars, now, lastOp, entered, lockVars, bootVars, sideVars, ledPattern, attempts>>

\* The wait of updateStatus() ends with r: 53 bytes read into status_response
\* and decoded, or RecvTimeout.  Bytes arrive only over an established
\* connection with the link up.
PollRecv(r) ==
    /\ dl_pc = "recv"
    /\ r # RecvTimeout => monitorConnected /\ linkStatus = "LinkON"
    /\ LET u == UpdateStatus(r, currentState, statusUpdated, cachedWords)
       IN  /\ currentState' = u.st
           /\ statusUpdated' = u.dirty
           /\ cachedWords' = u.cache
           /\ owed' = IF u.changed THEN OwedAfterDirty ELSE owed
    /\ status_response' = IF r = RecvTimeout THEN status_response ELSE r
    /\ answered' = (answered \/ r # RecvTimeout)
    /\ inFlight' = Tail(inFlight)
    /\ dl_pc' = "loop"
    /\ UNCHANGED <<queueVars, waiterVars, linkStatus, monitorConnected, cmd, wire,
                   webVars, now, lastOp, entered, lockVars, bootVars, sideVars, ledPattern, attempts>>

\* The Ethernet link goes down or comes up.
LinkChange ==
    /\ linkStatus' = IF linkStatus = "LinkON" THEN "LinkOFF" ELSE "LinkON"
    /\ UNCHANGED <<queueVars, waiterVars, owed, storeVars, monitorConnected, dl_pc,
                   cmd, wire, webVars, now, lastOp, auxVars>>

\* The monitor closes the connection, or it is lost.
MonitorDrop ==
    /\ monitorConnected
    /\ monitorConnected' = FALSE
    /\ UNCHANGED <<queueVars, waiterVars, owed, storeVars, linkStatus, dl_pc,
                   cmd, wire, webVars, now, lastOp, auxVars>>

\* buttonHandler, the switch of pushButton: the command of a key, NULL for a
\* pin that is none of the keys (ignore = true).
ButtonCommand(buttonPushed) ==
    CASE buttonPushed = "KEY_POWER"     -> Command_t("CT_STATUS", "POWER")
      [] buttonPushed = "INPUT_KEY_0"   -> Command_t("CT_INFO", "0")
      [] buttonPushed = "INPUT_KEY_1"   -> Command_t("CT_INFO", "1")
      [] buttonPushed = "INPUT_KEY_2"   -> Command_t("CT_INFO", "2")
      [] buttonPushed = "INPUT_KEY_3"   -> Command_t("CT_INFO", "3")
      [] buttonPushed = "INPUT_KEY_4"   -> Command_t("CT_INFO", "4")
      [] buttonPushed = "INPUT_KEY_5"   -> Command_t("CT_INFO", "5")
      [] buttonPushed = "INPUT_KEY_6"   -> Command_t("CT_INFO", "6")
      [] buttonPushed = "INPUT_KEY_7"   -> Command_t("CT_INFO", "7")
      [] buttonPushed = "INPUT_KEY_8"   -> Command_t("CT_INFO", "8")
      [] buttonPushed = "INPUT_KEY_9"   -> Command_t("CT_INFO", "9")
      [] buttonPushed = "INPUT_KEY_ENT" -> Command_t("CT_INFO", "ENTER")
      [] buttonPushed = "INPUT_KEY_DEL" -> Command_t("CT_INFO", "DELETE")
      [] buttonPushed = "NAV_KEY_MENU"  -> Command_t("CT_INFO", "MENU")
      [] buttonPushed = "NAV_KEY_ENTER" -> Command_t("CT_INFO", "MENUENT")
      [] buttonPushed = "NAV_KEY_UP"    -> Command_t("CT_INFO", "MENUUP")
      [] buttonPushed = "NAV_KEY_DOWN"  -> Command_t("CT_INFO", "MENUDOWN")
      [] OTHER                          -> NULL

\* buttonHandler, pushButton(buttonPushed): under state_sem the command of
\* the key is pushed when the queue has room.
PushButton(buttonPushed) ==
    /\ LET c == ButtonCommand(buttonPushed)
       IN  IF QueueGetCount(commandQueue) < MAX_QUEUELEN /\ c # NULL
           THEN /\ commandQueue' = QueuePush(commandQueue, c)
                /\ cqShadow' = Append(cqShadow, c)
                /\ entered' = Append(entered, c)
           ELSE UNCHANGED <<queueVars, entered>>
    /\ UNCHANGED <<waiterVars, owed, storeVars, linkVars, webVars, now, lastOp, devAux, sysVars>>

(***************************************************************************)
(* The device link with its producers: loop() with every step of the       *)
(* connection, the link layer and the monitor as environment, the web task *)
(* and the key task pushing commands, and the notification cycle as the    *)
(* consumer of the dirty flag.                                             *)
(***************************************************************************)
\* Bound: the commands the producers push in one behaviour.
MaxCommands == 2

\* The keys pressed in this specification.
LinkKeys == {"NAV_KEY_MENU"}

\* The web request of this specification.
LinkUrl == toggleURL \o "POWER"

LinkProducers ==
    /\ Len(entered) < MaxCommands
    /\ \/ HandleToggle(LinkUrl)
       \/ \E k \in LinkKeys : PushButton(k)

LinkWeb ==
    \/ WebNoClient
    \/ CheckStatusLocked
    \/ CheckStatusDeliver

LinkLoop ==
    \/ LoopLinkOff
    \/ WaitLinkUp
    \/ ConnectMonitorBegin
    \/ ConnectSucceed
    \/ ConnectFirstPoll
    \/ LoopPop
    \/ LoopSend
    \/ LoopAck
    \/ LoopPoll
    \/ \E r \in PollOutcomes : PollRecv(r)

LinkEnvironment ==
    \/ LinkChange
    \/ MonitorDrop

LinkNext ==
    \/ LinkProducers
    \/ LinkWeb
    \/ LinkLoop
    \/ LinkEnvironment

SpecLink == Init /\ [][LinkNext]_vars

(***************************************************************************)
(* The tasks at the grain of state_sem: every xSemaphoreTake and           *)
(* xSemaphoreGive is a step of its own, an update of several fields under  *)
(* the mutex takes several steps, and so does the copy of the structure.   *)
(* Time stands still here, so no waiter ages.                              *)
(***************************************************************************)
\* What these steps leave alone.
coarseVars == <<web_pc, req, resp, nextClient, regAt, signals, owed, dl_pc, now, lastOp,
                inFlight, bootVars, sideVars, histVars>>

At(t, a, st) == lk_pc[t] = [at |-> a, step |-> st]

Goto(t, a, st) == lk_pc' = [lk_pc EXCEPT ![t] = [at |-> a, step |-> st]]

\* Where a task continues after the xSemaphoreGive that ends a region.
AfterGive(region) ==
    CASE region = "down"  -> "linkWait"
      [] region = "up"    -> "connTest"
      [] region = "lost"  -> "connect"
      [] region = "cup"   -> "poll"
      [] region = "upd"   -> "cache"
      [] region = "pop"   -> "send"
      [] region = "push"  -> "respond"
      [] region = "snap"  -> "respond"
      [] region = "wsnap" -> "drain"
      [] region = "note"  -> "deliver"
      [] region = "key"   -> "sample"

\* Mutant of LockTake: the task goes on without waiting for the mutex.
LockTake_NoWait(t) ==
    /\ lk_pc[t].step = "take"
    /\ holder' = t
    /\ Goto(t, lk_pc[t].at, "1")
    /\ UNCHANGED <<coarseVars, queueVars, entered, cmd, wire, status_response, statusWaiters,
                   updateWaiters, storeVars, linkStatus, monitorConnected, state, ledPattern>>

\* xSemaphoreTake(state_sem, portMAX_DELAY): the task blocks until the mutex
\* is free.
LockTake(t) ==
    /\ lk_pc[t].step = "take"
    /\ holder = "none"
    /\ holder' = t
    /\ Goto(t, lk_pc[t].at, "1")
    /\ UNCHANGED <<coarseVars, queueVars, entered, cmd, wire, status_response, statusWaiters,
                   updateWaiters, storeVars, linkStatus, monitorConnected, state, ledPattern>>

\* Mutant of LockGive: the task leaves the region without giving the mutex.
LockGive_Forgotten(t) ==
    /\ lk_pc[t].step = "give"
    /\ Goto(t, AfterGive(lk_pc[t].at), "out")
    /\ UNCHANGED <<coarseVars, queueVars, entered, cmd, wire, status_response, statusWaiters,
                   updateWaiters, storeVars, linkStatus, monitorConnected, state, ledPattern,
                   holder>>

\* xSemaphoreGive(state_sem).
LockGive(t) ==
    /\ lk_pc[t].step = "give"
    /\ holder' = "none"
    /\ Goto(t, AfterGive(lk_pc[t].at), "out")
    /\ UNCHANGED <<coarseVars, queueVars, entered, cmd, wire, status_response, statusWaiters,
                   updateWaiters, storeVars, linkStatus, monitorConnected, state, ledPattern>>

\* loop(): the tests of the link and of the connection, up to the next
\* xSemaphoreTake (waitLink stops the connection, connectMonitor forgets the
\* cached words).
LkLoopTop ==
    /\ At("loop", "loop", "out") \/ At("loop", "connTest", "out")
    /\ IF At("loop", "loop", "out") /\ linkStatus = "LinkOFF"
       THEN /\ monitorConnected' = FALSE
            /\ Goto("loop", "down", "take")
            /\ UNCHANGED cachedWords
       ELSE IF ~monitorConnected
       THEN /\ cachedWords' = UnknownWords
            /\ Goto("loop", "lost", "take")
            /\ UNCHANGED monitorConnected
       ELSE /\ Goto("loop", "pop", "take")
            /\ UNCHANGED <<cachedWords, monitorConnected>>
    /\ UNCHANGED <<coarseVars, queueVars, entered, cmd, wire, status_response, statusWaiters,
                   updateWaiters, currentState, statusUpdated, linkStatus, holder, state,
                   ledPattern>>

\* waitLink(), first region: currentState.m_linkUp = false.
LkLinkDown1 ==
    /\ At("loop", "down", "1")
    /\ currentState' = [currentState EXCEPT !.m_linkUp = FALSE]
    /\ Goto("loop", "down", "2")
    /\ UNCHANGED <<coarseVars, queueVars, entered, cmd, wire, status_response, statusWaiters,
                   updateWaiters, statusUpdated, cachedWords, linkStatus, monitorConnected,
                   holder, state, ledPattern>>

\* waitLink(), first region: m_connected, m_isValid and the dirty flag.
LkLinkDown2 ==
    /\ At("loop", "down", "2")
    /\ currentState' = [currentState EXCEPT !.m_connected = FALSE, !.m_isValid = FALSE]
    /\ statusUpdated' = TRUE
    /\ Goto("loop", "down", "give")
    /\ UNCHANGED <<coarseVars, queueVars, entered, cmd, wire, status_response, statusWaiters,
                   updateWaiters, cachedWords, linkStatus, monitorConnected, holder, state,
                   ledPattern>>

\* waitLink(): the delay loop ends when the link is up.
LkWaitLink ==
    /\ At("loop", "linkWait", "out")
    /\ linkStatus = "LinkON"
    /\ Goto("loop", "up", "take")
    /\ UNCHANGED <<coarseVars, queueVars, entered, cmd, wire, status_response, statusWaiters,
                   updateWaiters, storeVars, linkStatus, monitorConnected, holder, state,
                   ledPattern>>

\* waitLink(), second region.
LkLinkUp ==
    /\ At("loop", "up", "1")
    /\ currentState' = [currentState EXCEPT !.m_linkUp = TRUE]
    /\ statusUpdated' = TRUE
    /\ Goto("loop", "up", "give")
    /\ UNCHANGED <<coarseVars, queueVars, entered, cmd, wire, status_response, statusWaiters,
                   updateWaiters, cachedWords, linkStatus, monitorConnected, holder, state,
                   ledPattern>>

\* connectMonitor(), first region: if(currentState.m_connected) m_connected = false.
LkLost1 ==
    /\ At("loop", "lost", "1")
    /\ IF currentState.m_connected
       THEN /\ currentState' = [currentState EXCEPT !.m_connected = FALSE]
            /\ Goto("loop", "lost", "2")
       ELSE /\ UNCHANGED currentState
            /\ Goto("loop", "lost", "give")
    /\ UNCHANGED <<coarseVars, queueVars, entered, cmd, wire, status_response, statusWaiters,
                   updateWaiters, statusUpdated, cachedWords, linkStatus, monitorConnected,
                   holder, state, ledPattern>>

\* connectMonitor(), first region: m_isValid and the dirty flag.
LkLost2 ==
    /\ At("loop", "lost", "2")
    /\ currentState' = [currentState EXCEPT !.m_isValid = FALSE]
    /\ statusUpdated' = TRUE
    /\ Goto("loop", "lost", "give")
    /\ UNCHANGED <<coarseVars, queueVars, entered, cmd, wire, status_response, statusWaiters,
                   updateWaiters, cachedWords, linkStatus, monitorConnected, holder, state,
                   ledPattern>>

\* connectMonitor(): monitorClient.connect() returns 1.
LkConnect ==
    /\ At("loop", "connect", "out")
    /\ linkStatus = "LinkON"
    /\ monitorConnected' = TRUE
    /\ Goto("loop", "cup", "take")
    /\ UNCHANGED <<coarseVars, queueVars, entered, cmd, wire, status_response, statusWaiters,
                   updateWaiters, storeVars, linkStatus, holder, state, ledPattern>>

\* connectMonitor(), second region.
LkConnUp ==
    /\ At("loop", "cup", "1")
    /\ currentState' = [currentState EXCEPT !.m_connected = TRUE]
    /\ statusUpdated' = TRUE
    /\ Goto("loop", "cup", "give")
    /\ UNCHANGED <<coarseVars, queueVars, entered, cmd, wire, status_response, statusWaiters,
                   updateWaiters, cachedWords, linkStatus, monitorConnected, holder, state,
                   ledPattern>>

\* updateStatus(): monitorClient.write(get_status).
LkPollWrite ==
    /\ At("loop", "poll", "out")
    /\ Goto("loop", "recv", "out")
    /\ UNCHANGED <<coarseVars, queueVars, entered, cmd, wire, status_response, statusWaiters,
                   updateWaiters, storeVars, linkStatus, monitorConnected, holder, state,
                   ledPattern>>

\* updateStatus(): the wait ends with r; a response is read into
\* status_response, decoded and compared with the cached words.
LkPollRecv(r) ==
    /\ At("loop", "recv", "out")
    /\ r \in PollOutcomes
    /\ IF r = RecvTimeout
       THEN /\ UNCHANGED status_response
            /\ Goto("loop", "loop", "out")
       ELSE /\ status_response' = r
            /\ IF DecodeWords(r) # cachedWords
               THEN Goto("loop", "upd", "take")
               ELSE Goto("loop", "loop", "out")
    /\ UNCHANGED <<coarseVars, queueVars, entered, cmd, wire, statusWaiters, updateWaiters,
                   storeVars, linkStatus, monitorConnected, holder, state, ledPattern>>

\* The fields updateStatus writes from statusw1.
ApplyWord1(st, w) ==
    [st EXCEPT
       !.m_isPowered    = BitSet(w[1], 32768),
       !.m_scanmode     = BitSet(w[1], 1024),
       !.m_hdelay       = BitSet(w[1], 512),
       !.m_vdelay       = BitSet(w[1], 256),
       !.m_monochrome   = BitSet(w[1], 128),
       !.m_charmute     = BitSet(w[1], 64),
       !.m_marker       = BitSet(w[1], 32),
       !.m_extsync      = BitSet(w[1], 16),
       !.m_apt          = BitSet(w[1], 8),
       !.m_chromaup     = BitSet(w[1], 4),
       !.m_aspect       = BitSet(w[1], 2)]

\* updateStatus(), its region: the fields of statusw1.
LkUpdate1 ==
    /\ At("loop", "upd", "1")
    /\ currentState' = ApplyWord1(currentState, DecodeWords(status_response))
    /\ Goto("loop", "upd", "2")
    /\ UNCHANGED <<coarseVars, queueVars, entered, cmd, wire, status_response, statusWaiters,
                   updateWaiters, statusUpdated, cachedWords, linkStatus, monitorConnected,
                   holder, state, ledPattern>>

\* updateStatus(), its region: the fields of statusw3 and statusw4,
\* m_isValid and the dirty flag.
LkUpdate2 ==
    /\ At("loop", "upd", "2")
    /\ currentState' = ApplyWords(currentState, DecodeWords(status_response))
    /\ statusUpdated' = TRUE
    /\ Goto("loop", "upd", "give")
    /\ UNCHANGED <<coarseVars, queueVars, entered, cmd, wire, status_response, statusWaiters,
                   updateWaiters, cachedWords, linkStatus, monitorConnected, holder, state,
                   ledPattern>>

\* updateStatus(), after its region: _statusw1 = statusw1 ...
LkCache ==
    /\ At("loop", "cache", "out")
    /\ cachedWords' = DecodeWords(status_response)
    /\ Goto("loop", "loop", "out")
    /\ UNCHANGED <<coarseVars, queueVars, entered, cmd, wire, status_response, statusWaiters,
                   updateWaiters, currentState, statusUpdated, linkStatus, monitorConnected,
                   holder, state, ledPattern>>

\* loop(), its region: cmd = commandQueue.pop(&c).
LkPop ==
    /\ At("loop", "pop", "1")
    /\ LET r == QueuePop(commandQueue)
       IN  /\ commandQueue' = r.q
           /\ cmd' = r.ret
           /\ cqShadow' = IF cqShadow = <<>> THEN cqShadow ELSE Tail(cqShadow)
    /\ Goto("loop", "pop", "give")
    /\ UNCHANGED <<coarseVars, entered, wire, status_response, statusWaiters, updateWaiters,
                   storeVars, linkStatus, monitorConnected, holder, state, ledPattern>>

\* loop(), after its region: the popped command is written and its
\* acknowledgement awaited (c and cmd end with the iteration); then the
\* status is polled if it is due.
LkSend ==
    /\ At("loop", "send", "out")
    /\ wire' = IF cmd # NULL /\ monitorConnected
               THEN Append(wire, EncodePayload(cmd)) ELSE wire
    /\ cmd' = NULL
    /\ \E due \in BOOLEAN :
         IF due THEN Goto("loop", "poll", "out") ELSE Goto("loop", "loop", "out")
    /\ UNCHANGED <<coarseVars, queueVars, entered, status_response, statusWaiters,
                   updateWaiters, storeVars, linkStatus, monitorConnected, holder, state,
                   ledPattern>>

\* The kinds of request webserverHandler handles here ("none": no client).
LockRequests == {"none", "toggle", "status", "wait"}

\* webserverHandler up to its next xSemaphoreTake: nothing to handle, or
\* handleReq for /toggle/, /statusget or /statuswait (which stores the
\* waiter at once).
LkAccept(kind) ==
    /\ At("web", "accept", "out")
    /\ kind \in LockRequests
    /\ statusWaiters' =
         IF kind = "wait" /\ WaiterGetCount(statusWaiters) < MAX_WAITERS
         THEN WaiterPush(statusWaiters, StatusWaiter_t(1, now))
         ELSE statusWaiters
    /\ CASE kind = "toggle" -> Goto("web", "push", "take")
         [] kind = "status" -> Goto("web", "snap", "take")
         [] OTHER           -> Goto("web", "note", "take")
    /\ UNCHANGED <<coarseVars, queueVars, entered, cmd, wire, status_response, updateWaiters,
                   storeVars, linkStatus, monitorConnected, holder, state, ledPattern>>

\* handleReq, /toggle/, its region.
LkWebPush ==
    /\ At("web", "push", "1")
    /\ LET c == Command_t("CT_STATUS", SubstringFrom(LinkUrl, Len(toggleURL)))
       IN  IF QueueGetCount(commandQueue) < MAX_QUEUELEN
           THEN /\ commandQueue' = QueuePush(commandQueue, c)
                /\ cqShadow' = Append(cqShadow, c)
                /\ entered' = Append(entered, c)
           ELSE UNCHANGED <<queueVars, entered>>
    /\ Goto("web", "push", "give")
    /\ UNCHANGED <<coarseVars, cmd, wire, status_response, statusWaiters, updateWaiters,
                   storeVars, linkStatus, monitorConnected, holder, state, ledPattern>>

\* The response of handleReq is written to the client (the copy made by
\* addStatus ends with the call).
LkRespond ==
    /\ At("web", "respond", "out")
    /\ state' = InitialState_t
    /\ Goto("web", "note", "take")
    /\ UNCHANGED <<coarseVars, queueVars, entered, cmd, wire, status_response, statusWaiters,
                   updateWaiters, storeVars, linkStatus, monitorConnected, holder,
                   ledPattern>>

\* The members of State_t the first part of a copy of the structure moves.
FirstMembers == {"m_linkUp", "m_connected", "m_isValid", "m_isPowered"}

\* addStatus, State_t state = currentState: the first members are copied.
LkSnap1 ==
    /\ At("web", "snap", "1") \/ At("web", "wsnap", "1")
    /\ state' = [f \in DOMAIN state |->
                   IF f \in FirstMembers THEN currentState[f] ELSE state[f]]
    /\ Goto("web", lk_pc["web"].at, "2")
    /\ UNCHANGED <<coarseVars, queueVars, entered, cmd, wire, status_response, statusWaiters,
                   updateWaiters, storeVars, linkStatus, monitorConnected, holder, ledPattern>>

\* addStatus, State_t state = currentState: the other members are copied.
LkSnap2 ==
    /\ At("web", "snap", "2") \/ At("web", "wsnap", "2")
    /\ state' = [f \in DOMAIN state |->
                   IF f \in FirstMembers THEN state[f] ELSE currentState[f]]
    /\ Goto("web", lk_pc["web"].at, "give")
    /\ UNCHANGED <<coarseVars, queueVars, entered, cmd, wire, status_response, statusWaiters,
                   updateWaiters, storeVars, linkStatus, monitorConnected, holder, ledPattern>>

\* checkStatusNotification, its region: the dirty flag is taken.
LkNote ==
    /\ At("web", "note", "1")
    /\ IF statusUpdated
       THEN /\ statusUpdated' = FALSE
            /\ updateWaiters' = TRUE
       ELSE UNCHANGED <<statusUpdated, updateWaiters>>
    /\ Goto("web", "note", "give")
    /\ UNCHANGED <<coarseVars, queueVars, entered, cmd, wire, status_response, statusWaiters,
                   currentState, cachedWords, linkStatus, monitorConnected, holder, state,
                   ledPattern>>

\* checkStatusNotification, after its region: with waiters stored and a
\* change to report addStatus is called; with waiters and no change the old
\* ones are evicted.
LkDeliver ==
    /\ At("web", "deliver", "out")
    /\ IF WaiterGetCount(statusWaiters) # 0 /\ updateWaiters
       THEN /\ Goto("web", "wsnap", "take")
            /\ UNCHANGED statusWaiters
       ELSE /\ Goto("web", "accept", "out")
            /\ statusWaiters' =
                 IF WaiterGetCount(statusWaiters) # 0
                 THEN SweepWaiters(statusWaiters, now, <<>>).q
                 ELSE statusWaiters
    /\ UNCHANGED <<coarseVars, queueVars, entered, cmd, wire, status_response, updateWaiters,
                   storeVars, linkStatus, monitorConnected, holder, state, ledPattern>>

\* checkStatusNotification: every waiter is popped and answered.
LkDrain ==
    /\ At("web", "drain", "out")
    /\ statusWaiters' = DrainWaiters(statusWaiters, <<>>).q
    /\ updateWaiters' = FALSE
    /\ state' = InitialState_t
    /\ Goto("web", "accept", "out")
    /\ UNCHANGED <<coarseVars, queueVars, entered, cmd, wire, status_response, storeVars,
                   linkStatus, monitorConnected, holder, ledPattern>>

\* buttonHandler: a rising edge on a key is sampled.
LkSample ==
    /\ At("keys", "sample", "out")
    /\ Goto("keys", "key", "take")
    /\ UNCHANGED <<coarseVars, queueVars, entered, cmd, wire, status_response, statusWaiters,
                   updateWaiters, storeVars, linkStatus, monitorConnected, holder, state,
                   ledPattern>>

\* buttonHandler, pushButton, its region.
LkKeyPush(buttonPushed) ==
    /\ At("keys", "key", "1")
    /\ LET c == ButtonCommand(buttonPushed)
       IN  IF QueueGetCount(commandQueue) < MAX_QUEUELEN /\ c # NULL
           THEN /\ commandQueue' = QueuePush(commandQueue, c)
                /\ cqShadow' = Append(cqShadow, c)
                /\ entered' = Append(entered, c)
           ELSE UNCHANGED <<queueVars, entered>>
    /\ Goto("keys", "key", "give")
    /\ UNCHANGED <<coarseVars, cmd, wire, status_response, statusWaiters, updateWaiters,
                   storeVars, linkStatus, monitorConnected, holder, state, ledPattern>>

\* statusLEDBlinker: the pattern of one pass of its loop.
LedPattern(setting, wifi, linkUp, connected) ==
    IF setting THEN "On"
    ELSE IF ~wifi THEN "1 Short"
    ELSE IF ~linkUp THEN "2 Short"
    ELSE IF ~connected THEN "3 Short"
    ELSE "Blinking 50/50"

\* statusLEDBlinker: one pass of its loop.
LedBlink ==
    /\ "statusLEDBlinker" \in tasks
    /\ ledPattern' = LedPattern(settingUp, wifiConnected, currentState.m_linkUp,
                                currentState.m_connected)
    /\ UNCHANGED <<queueVars, cmd, wire, devAux, entered, lockVars, bootVars, sideVars, waiterVars,
                   webVars, owed, storeVars, linkStatus, monitorConnected, dl_pc, now, lastOp,
                   histVars>>

\* Bound: the commands the producers push in one behaviour of the tasks at
\* the grain of the mutex.
MaxLockCommands == 1

\* Bound: the long-poll connections stored at one time in a behaviour of the
\* tasks at the grain of the mutex.
MaxLockWaiters == 1

\* The tasks that take state_sem.
LockTasks == DOMAIN IdleTasks

LockLoop ==
    \/ LkLoopTop
    \/ LkLinkDown1
    \/ LkLinkDown2
    \/ LkWaitLink
    \/ LkLinkUp
    \/ LkLost1
    \/ LkLost2
    \/ LkConnect
    \/ LkConnUp
    \/ LkPollWrite
    \/ \E r \in PollOutcomes : LkPollRecv(r)
    \/ LkUpdate1
    \/ LkUpdate2
    \/ LkCache
    \/ LkPop
    \/ LkSend

\* webserverHandler answering /statusget and /statuswait.
LockWebRead ==
    \/ \E kind \in LockRequests \ {"toggle"} :
         /\ kind = "wait" => WaiterGetCount(statusWaiters) < MaxLockWaiters
         /\ LkAccept(kind)
    \/ LkRespond
    \/ LkSnap1
    \/ LkSnap2
    \/ LkNote
    \/ LkDeliver
    \/ LkDrain

\* webserverHandler answering /toggle/.
LockWebPush ==
    \/ \E kind \in {"none", "toggle"} :
         /\ kind = "toggle" => Len(entered) < MaxLockCommands
         /\ LkAccept(kind)
    \/ LkWebPush
    \/ LkRespond
    \/ LkNote
    \/ LkDeliver

LockKeys ==
    \/ Len(entered) < MaxLockCommands /\ LkSample
    \/ \E k \in LinkKeys : LkKeyPush(k)

LockMutex ==
    \E t \in LockTasks : LockTake(t) \/ LockGive(t)

\* loop() and the web task as reader and notifier, with the LED task.
LockNext ==
    \/ LockMutex
    \/ LockLoop
    \/ LockWebRead
    \/ LedBlink
    \/ LinkChange
    \/ MonitorDrop

SpecLock == Init /\ [][LockNext]_vars

\* A step of the task where the producers of commands run: its own steps and
\* its takes and gives of the mutex.
RegionStep(t) ==
    \/ LockTake(t)
    \/ LockGive(t)
    \/ t = "loop" /\ LockLoop
    \/ t = "web" /\ LockWebPush
    \/ t = "keys" /\ LockKeys

\* loop(), the key task and the web task as producer; a link that was down
\* at the start comes up and then stays up.
RegionNext ==
    \/ \E t \in LockTasks : RegionStep(t)
    \/ linkStatus = "LinkOFF" /\ LinkChange
    \/ MonitorDrop

SpecRegions == Init /\ [][RegionNext]_vars

(***************************************************************************)
(* Startup: setup() step by step, then loop(), the key task, the LED task  *)
(* and wifiConnectionHandler, with the WiFi network, the link layer and    *)
(* the monitor as environment.                                             *)
(***************************************************************************)
\* Power-on: the globals have their initial values, the LED is off, and the
\* Ethernet module answers or does not.
InitBoot ==
    /\ InitGlobals
    /\ commandQueue = Queue(MAX_QUEUELEN)
    /\ cqShadow = <<>>
    /\ entered = <<>>
    /\ currentState = InitialState_t
    /\ boot_pc = "pins"
    /\ hardware \in {"EthernetW5500", "EthernetNoHardware"}
    /\ wifiEnabled = TRUE
    /\ settingUp = FALSE
    /\ wifiStatus = "WL_DISCONNECTED"
    /\ wifiConnected = FALSE
    /\ wifi_pc = "watch"
    /\ tasks = {}
    /\ ledPattern = "Off"

\* What the steps of setup() leave alone.
runVars == <<queueVars, cmd, wire, devAux, entered, lockVars, waiterVars, webVars, owed,
             statusUpdated, cachedWords, linkStatus, monitorConnected, dl_pc, now, lastOp,
             histVars, sideVars>>

\* setup(): the DISABLE_WIFI and FORCE_SETUP pins are read, and with WiFi
\* enabled and setup not forced the stored credentials (no SSID: setup mode).
SetupPins(disable, force, ssidStored) ==
    /\ boot_pc = "pins"
    /\ wifiEnabled' = ~disable
    /\ settingUp' = (force \/ (~disable /\ ~ssidStored))
    /\ boot_pc' = "ethernet"
    /\ UNCHANGED <<runVars, currentState, hardware, wifiStatus, wifiConnected, wifi_pc, tasks,
                   ledPattern>>

\* Mutant of SetupEthernet: the answer of the Ethernet module is not tested.
SetupEthernet_NoCheck ==
    /\ boot_pc = "ethernet"
    /\ currentState' = [currentState EXCEPT !.m_linkUp = (linkStatus = "LinkON")]
    /\ boot_pc' = "wifi"
    /\ UNCHANGED ledPattern
    /\ UNCHANGED <<runVars, hardware, wifiEnabled, settingUp, wifiStatus, wifiConnected,
                   wifi_pc, tasks>>

\* setup(): Ethernet.begin; without the module setup stays in
\* while(true) { digitalWrite(LED, HIGH); delay(100); }, with it the mutex is
\* created and the link is read into currentState.m_linkUp.
SetupEthernet ==
    /\ boot_pc = "ethernet"
    /\ IF hardware = "EthernetNoHardware"
       THEN /\ boot_pc' = "halt"
            /\ ledPattern' = "On"
            /\ UNCHANGED currentState
       ELSE /\ currentState' = [currentState EXCEPT !.m_linkUp = (linkStatus = "LinkON")]
            /\ boot_pc' = "wifi"
            /\ UNCHANGED ledPattern
    /\ UNCHANGED <<runVars, hardware, wifiEnabled, settingUp, wifiStatus, wifiConnected,
                   wifi_pc, tasks>>

\* setup(): if(wifiEnabled): WiFi.begin with the credentials, or the access
\* point and the setupWifi task in setup mode.
SetupWifi ==
    /\ boot_pc = "wifi"
    /\ IF wifiEnabled /\ ~settingUp
       THEN /\ boot_pc' = "wifiWait"
            /\ UNCHANGED tasks
       ELSE /\ boot_pc' = "tasks"
            /\ tasks' = IF wifiEnabled THEN {"setupWifi"} ELSE tasks
    /\ UNCHANGED <<runVars, currentState, hardware, wifiEnabled, settingUp, wifiStatus,
                   wifiConnected, wifi_pc, ledPattern>>

\* setup(): while (WiFi.status() != WL_CONNECTED) { blink; wifiConnected =
\* true; }, and after the loop the web server task and wifiConnectionHandler.
SetupWifiWait ==
    /\ boot_pc = "wifiWait"
    /\ IF wifiStatus # "WL_CONNECTED"
       THEN /\ ledPattern' = "1 Short"
            /\ wifiConnected' = TRUE
            /\ UNCHANGED <<boot_pc, tasks>>
       ELSE /\ tasks' = {"webserverHandler", "wifiConnectionHandler"}
            /\ boot_pc' = "tasks"
            /\ UNCHANGED <<ledPattern, wifiConnected>>
    /\ UNCHANGED <<runVars, currentState, hardware, wifiEnabled, settingUp, wifiStatus,
                   wifi_pc>>

\* setup(): the key task and the LED task are created and setup returns.
SetupTasks ==
    /\ boot_pc = "tasks"
    /\ tasks' = tasks \cup {"buttonHandler", "statusLEDBlinker"}
    /\ boot_pc' = "running"
    /\ UNCHANGED <<runVars, currentState, hardware, wifiEnabled, settingUp, wifiStatus,
                   wifiConnected, wifi_pc, ledPattern>>

SetupStep ==
    \/ \E disable, force, ssidStored \in BOOLEAN : SetupPins(disable, force, ssidStored)
    \/ SetupEthernet
    \/ SetupWifi
    \/ SetupWifiWait
    \/ SetupTasks

\* wifiConnectionHandler: the connection is seen lost, or is back after a
\* reconnect.
WifiConnectionStep ==
    /\ "wifiConnectionHandler" \in tasks
    /\ \/ /\ wifi_pc = "watch"
          /\ wifiStatus # "WL_CONNECTED"
          /\ wifiConnected' = FALSE
          /\ wifi_pc' = "reconnect"
       \/ /\ wifi_pc = "reconnect"
          /\ wifiStatus = "WL_CONNECTED"
          /\ wifiConnected' = TRUE
          /\ wifi_pc' = "watch"
    /\ UNCHANGED <<runVars, currentState, boot_pc, hardware, wifiEnabled, settingUp,
                   wifiStatus, tasks, ledPattern>>

\* The WiFi network: the station gets or loses its connection (after
\* WiFi.begin).
WifiChange ==
    /\ boot_pc \in {"wifiWait", "tasks", "running"}
    /\ wifiEnabled /\ ~settingUp
    /\ wifiStatus' = IF wifiStatus = "WL_CONNECTED" THEN "WL_DISCONNECTED"
                     ELSE "WL_CONNECTED"
    /\ UNCHANGED <<runVars, currentState, boot_pc, hardware, wifiEnabled, settingUp,
                   wifiConnected, wifi_pc, tasks, ledPattern>>

\* buttonHandler: a rising edge on one of the keys.
KeyTaskStep ==
    /\ "buttonHandler" \in tasks
    /\ Len(entered) < MaxLockCommands
    /\ \E k \in LinkKeys : PushButton(k)

BootNext ==
    \/ SetupStep
    \/ boot_pc = "running" /\ LinkLoop
    \/ KeyTaskStep
    \/ LedBlink
    \/ WifiConnectionStep
    \/ WifiChange
    \/ LinkChange
    \/ MonitorDrop

SpecBoot == InitBoot /\ [][BootNext]_vars

\* setup() runs on, and so does every task that was created.
FairBoot ==
    /\ SpecBoot
    /\ WF_vars(SetupStep)
    /\ WF_vars(KeyTaskStep)
    /\ WF_vars(LedBlink)

(***************************************************************************)
(* A driver of the command queue alone: any interleaving of push and pop,  *)
(* a push on a full queue included (the request handlers test getCount()   *)
(* before they push).                                                      *)
(***************************************************************************)
DriverCommands == {Command_t("CT_STATUS", "POWER"), Command_t("CT_INFO", "ENTER")}

QueueOpPush(t) ==
    /\ commandQueue' = QueuePush(commandQueue, t)
    /\ cqShadow' = IF Len(cqShadow) < MAX_QUEUELEN THEN Append(cqShadow, t) ELSE cqShadow
    /\ lastOp' = [op |-> "push", count |-> Len(cqShadow)]
    /\ UNCHANGED <<cmd, wire, waiterVars, owed, storeVars, linkStatus, monitorConnected,
                   dl_pc, webVars, now, auxVars>>

QueueOpPop ==
    /\ LET r == QueuePop(commandQueue)
       IN  /\ commandQueue' = r.q
           /\ cmd' = r.ret
    /\ cqShadow' = IF cqShadow = <<>> THEN cqShadow ELSE Tail(cqShadow)
    /\ lastOp' = [op |-> "pop", count |-> Len(cqShadow)]
    /\ UNCHANGED <<wire, waiterVars, owed, storeVars, linkStatus, monitorConnected,
                   dl_pc, webVars, now, auxVars>>

QueueNext ==
    \/ \E t \in DriverCommands : QueueOpPush(t)
    \/ QueueOpPop

SpecQueue == Init /\ [][QueueNext]_vars

(***************************************************************************)
(* One request against any state of the command queue: the queue holds k   *)
(* key presses after j earlier ones were pushed and consumed, so that the   *)
(* indices stand anywhere in the ring.                                     *)
(***************************************************************************)
\* buttonHandler's command for INPUT_KEY_1.
KeyCommand == Command_t("CT_INFO", "1")

RECURSIVE PushTimes(_, _, _)
PushTimes(q, t, n) == IF n = 0 THEN q ELSE PushTimes(QueuePush(q, t), t, n - 1)

RECURSIVE PopTimes(_, _)
PopTimes(q, n) == IF n = 0 THEN q ELSE PopTimes(QueuePop(q).q, n - 1)

PrefilledQueue(j, k) ==
    PushTimes(PopTimes(PushTimes(Queue(MAX_QUEUELEN), KeyCommand, j), j), KeyCommand, k)

InitReq ==
    /\ \E j \in 0 .. MAX_QUEUELEN - 1, k \in 0 .. MAX_QUEUELEN :
         commandQueue = PrefilledQueue(j, k)
    /\ cqShadow = QueueContents(commandQueue)
    /\ entered = cqShadow
    /\ InitOther

\* #define ..._BUTTON: the status buttons the program knows.
StatusButtons ==
    {"POWER", "DEGAUSS", "SCANMODE", "HDELAY", "VDELAY", "MONOCHR", "APERTURE",
     "COMB", "CHARMUTE", "COLADJ", "ASPECT", "EXTSYNC", "BLUEONLY", "RCUTOFF",
     "GCUTOFF", "BCUTOFF", "MARKER", "CHROMAUP", "MANPHASE", "MANCHR", "MANBRT",
     "MANCONT"}

\* The info buttons the program knows: the INFO_ defines and the digits.
InfoButtons ==
    {"ENTER", "DELETE", "MENU", "MENUENT", "MENUUP", "MENUDOWN",
     "0", "1", "2", "3", "4", "5", "6", "7", "8", "9"}

\* The button names requested in the model.
RequestedButtons == {"POWER", "DEGAUSS", "ENTER", "5", "BOGUS", ""}

\* The knob requests made in the model: knob name, direction, factor and
\* ticks as they stand in the URL; NoSegment for a URL that ends before that
\* part (and its separator).
NoSegment == "<none>"

KnobRequests ==
    [knob   : {"PHASE", "CHROMA", "BRIGHTNESS", "CONTRAST", "VOLUME", "phase"},
     dir    : {"p", "n", "x", ""},
     factor : {"10", "0", ""},
     ticks  : {"5", "0", "", NoSegment}]

\* GET /turnknob/<knob>/<dir>/<factor>/<ticks>
KnobUrl(r) ==
    knobURL \o r.knob \o "/" \o r.dir \o "/" \o r.factor
            \o (IF r.ticks = NoSegment THEN "" ELSE "/" \o r.ticks)

ReqNext ==
    \/ \E b \in RequestedButtons : HandleToggle(toggleURL \o b)
    \/ \E b \in RequestedButtons : HandleInfoPush(infoPushURL \o b)
    \/ \E r \in KnobRequests : HandleTurnKnob(KnobUrl(r))

SpecReq == InitReq /\ [][ReqNext]_vars

(***************************************************************************)
(* The web task with status waiters as its only requests, beside a device  *)
(* link whose Ethernet link does not change and whose monitor, once         *)
(* connected, stays connected: loop() connects, then polls, and every       *)
(* change of the monitor's answer sets the dirty flag.                      *)
(***************************************************************************)
\* One step of webserverHandler.
WebStep ==
    \/ WebNoClient
    \/ HandleStatusWait(statusWaitURL)
    \/ CheckStatusLocked
    \/ CheckStatusDeliver

\* One step of loop() and what it calls.
LinkStep ==
    \/ ConnectMonitorBegin
    \/ ConnectSucceed
    \/ ConnectFirstPoll
    \/ LoopPop
    \/ LoopPoll
    \/ \E r \in PollOutcomes : PollRecv(r)

WaiterNext ==
    \/ WebStep
    \/ LinkStep
    \/ Tick

SpecWaiters == Init /\ [][WaiterNext]_vars

\* Both tasks run forever (each ends an iteration with a delay and starts the
\* next) and millis() advances.
FairWaiters == SpecWaiters /\ WF_vars(WebStep) /\ WF_vars(LinkStep) /\ WF_vars(Tick)

(***************************************************************************)
(* Properties of the command queue                                         *)
(***************************************************************************)
\* C1: in any interleaving of pushes and pops that never holds more than
\* MAX_QUEUELEN entries, the ring stores exactly the pushed and not yet
\* popped commands in push order, every pop returns the oldest of them, and
\* a pop on an empty queue returns NULL.
C1_FifoOrder ==
    [][ /\ QueueContents(commandQueue') = cqShadow'
        /\ QueueOpPop => cmd' = (IF cqShadow = <<>> THEN NULL ELSE Head(cqShadow)) ]_vars

\* C1 witness: the queue has wrapped (the tail index is ahead of the head
\* index) and a pop has just returned a command while others stay stored.
C1_Witness ==
    /\ lastOp.op = "pop"
    /\ cmd # NULL
    /\ commandQueue.m_head < commandQueue.m_tail
    /\ commandQueue.m_count >= 2

\* C2: a push on a queue that holds MAX_QUEUELEN entries changes nothing:
\* the stored entries, their order, m_head, m_tail and m_count stay as they were.
C2_PushOnFullUnchanged ==
    [][ ((\E t \in DriverCommands : QueueOpPush(t))
            /\ commandQueue.m_count = MAX_QUEUELEN)
        => commandQueue' = commandQueue ]_vars

\* C2 witness: the last operation was a push that found the queue full.
C2_Witness ==
    /\ lastOp = [op |-> "push", count |-> MAX_QUEUELEN]
    /\ commandQueue.m_count = MAX_QUEUELEN

(***************************************************************************)
(* Properties of the request handlers                                      *)
(***************************************************************************)
\* A /toggle/ or /infopush/ request is handled in this step.
ButtonRequestStep ==
    \E b \in RequestedButtons :
        HandleToggle(toggleURL \o b) \/ HandleInfoPush(infoPushURL \o b)

\* C3: a /toggle/ or /infopush/ request that finds the command queue full is
\* answered with a result other than Ok, and whenever the answer is Ok (200)
\* the command was stored.
C3_QueueFullReported ==
    [][ ButtonRequestStep =>
          /\ commandQueue.m_count = MAX_QUEUELEN => resp' # 200
          /\ resp' = 200 => commandQueue'.m_count = commandQueue.m_count + 1 ]_vars

\* C4: the knob requests that count as Invalid.
KnobRequestInvalid(r) ==
    \/ r.knob \notin {"PHASE", "CHROMA", "BRIGHTNESS", "CONTRAST"}
    \/ r.dir \notin {"p", "n"}
    \/ r.factor \in {"0", ""}
    \/ r.ticks \in {"0", "", NoSegment}

\* C4: every /turnknob/ request is answered 404 exactly when it is Invalid,
\* else 503 exactly when the queue holds MAX_QUEUELEN entries, else 200; the
\* queue gains one entry behind the stored ones with 200 and is unchanged
\* with 404 and 503.
C4_KnobClassified ==
    [][ \A r \in KnobRequests :
          (req' = KnobUrl(r) /\ HandleTurnKnob(req')) =>
            LET full == commandQueue.m_count = MAX_QUEUELEN
                old  == QueueContents(commandQueue)
                new  == QueueContents(commandQueue')
            IN  /\ resp' = (IF KnobRequestInvalid(r) THEN 404
                            ELSE IF full THEN 503 ELSE 200)
                /\ resp' = 200 =>
                     /\ Len(new) = Len(old) + 1
                     /\ SubSeq(new, 1, Len(old)) = old
                     /\ new[Len(new)].m_commandType = "CT_INFOKNOB"
                /\ resp' # 200 => commandQueue' = commandQueue ]_vars

\* C4 witness: a well-formed knob request was answered 503 by a full queue.
C4_Witness ==
    /\ req = KnobUrl([knob |-> "CONTRAST", dir |-> "n", factor |-> "10", ticks |-> "5"])
    /\ resp = 503
    /\ commandQueue.m_count = MAX_QUEUELEN

\* C5: a /toggle/ or /infopush/ request that names no button the program
\* knows leaves the command queue, DeviceState and the dirty flag unchanged.
C5_UnknownButtonRejected ==
    [][ \A b \in RequestedButtons :
          /\ (HandleToggle(toggleURL \o b) /\ b \notin StatusButtons)
               => UNCHANGED <<commandQueue, currentState, statusUpdated>>
          /\ (HandleInfoPush(infoPushURL \o b) /\ b \notin InfoButtons)
               => UNCHANGED <<commandQueue, currentState, statusUpdated>> ]_vars

(***************************************************************************)
(* Properties of the waiter registry and the notification dispatcher       *)
(***************************************************************************)
\* C6: a /statuswait request is accepted (stored, nothing written yet) while
\* the registry counts fewer than MAX_WAITERS entries, and answered 503 with
\* the registry unchanged when it counts MAX_WAITERS.
C6_RegistryCapacity ==
    [][ HandleStatusWait(statusWaitURL) =>
          IF statusWaiters.m_count < MAX_WAITERS
          THEN /\ resp' = 0
               /\ statusWaiters'.m_count = statusWaiters.m_count + 1
               /\ nextClient \in WaiterClients(statusWaiters')
               /\ nextClient \in DOMAIN regAt'
          ELSE /\ resp' = 503
               /\ statusWaiters' = statusWaiters
               /\ regAt' = regAt ]_vars

\* C6 witness: MAX_WAITERS registrations were accepted and the next one has
\* just been answered 503.
C6_Witness ==
    /\ req = statusWaitURL
    /\ resp = 503
    /\ statusWaiters.m_count = MAX_WAITERS
    /\ nextClient = MAX_WAITERS + 1

\* C7: no long-poll connection has been written more than one response.
C7_AtMostOneSignal ==
    \A c \in 1 .. MaxClients : Len(signals[c]) <= 1

\* C7 witness: of three accepted waiters one was sent 200, one 204 and one
\* nothing, and the registry counts no entry: a slot that had held an earlier
\* waiter has been popped a second time.
C7_Witness ==
    /\ statusWaiters.m_count = 0
    /\ \E c, d, e \in Accepted : /\ signals[c] = <<[code |-> 200]>>
                                 /\ signals[d] = <<[code |-> 204]>>
                                 /\ signals[e] = <<>>

\* C8: every accepted waiter is eventually written a response (200 or 204),
\* for waiters registered early enough for their timeout to fall within the
\* modelled time.
C8_EveryWaiterSignalled ==
    \A c \in 1 .. MaxClients :
        (c \in Waiting /\ regAt[c] + WAITER_TIMEOUT <= MaxTime) ~> (signals[c] # <<>>)

\* C9: a waiter that was registered, unanswered and younger than the timeout
\* when the dirty flag was set is never sent 204, and has been sent 200 by
\* the time the registry is empty again at the end of a dispatcher cycle.
C9_ChangeDelivered ==
    \A c \in owed :
        /\ \A i \in 1 .. Len(signals[c]) : signals[c][i].code # 204
        /\ (statusWaiters.m_count = 0 /\ web_pc = "accept") => signals[c] # <<>>

\* The age of an unanswered waiter.
Age(c) == now - regAt[c]

\* C10: a dispatcher cycle that took no dirty flag sends 204 only to waiters
\* that are not younger than the timeout, in the order of their arrival,
\* and leaves unanswered no waiter older than the timeout; the younger ones
\* stay registered.  (A waiter whose age is exactly the timeout may go either
\* way here.)
C10_SweepExact ==
    [][ (CheckStatusDeliver /\ ~updateWaiters) =>
          LET out   == SweepWaiters(statusWaiters, now, <<>>).out
              sent  == SelectSeq(out, LAMBDA w : w.m_client # NoClient)
          IN  /\ \A c \in Waiting :
                   /\ signals'[c] # <<>> => signals'[c] = <<[code |-> 204]>> /\ Age(c) >= WAITER_TIMEOUT
                   /\ signals'[c] = <<>> => Age(c) <= WAITER_TIMEOUT
                   /\ (Age(c) < WAITER_TIMEOUT /\ c \in WaiterClients(statusWaiters))
                        => c \in WaiterClients(statusWaiters')
              /\ \A i, j \in 1 .. Len(sent) : i < j => sent[i].m_client < sent[j].m_client ]_vars

(***************************************************************************)
(* C11: the dirty flag and the status poll                                 *)
(***************************************************************************)
\* The step is a status poll that decodes words differing from the cached ones.
ChangedPoll ==
    \E r \in MonitorResponses : PollRecv(r) /\ DecodeWords(r) # cachedWords

\* C11 as stated: the dirty flag becomes true only in a status poll that
\* decodes words differing from the cached ones, and it is false right after
\* every poll whose response is identical to the previous poll's.
C11_DirtyIffChangedPoll ==
    [][ /\ (~statusUpdated /\ statusUpdated') => ChangedPoll
        /\ \A r \in MonitorResponses :
             PollRecv(r) /\ r = status_response => ~statusUpdated' ]_vars

\* C11 amended: a status poll sets the dirty flag exactly when it decodes
\* words that differ from the cached ones and otherwise leaves the flag as
\* it was; the flag becomes true only in such a poll or in a connection or
\* link update of connectMonitor and waitLink.
C11_DirtySetByChange ==
    [][ /\ \A r \in PollOutcomes :
             PollRecv(r) =>
               statusUpdated' = (statusUpdated \/
                                 (r # RecvTimeout /\ DecodeWords(r) # cachedWords))
        /\ (~statusUpdated /\ statusUpdated') =>
             \/ ChangedPoll
             \/ ConnectMonitorBegin
             \/ ConnectSucceed
             \/ LoopLinkOff
             \/ WaitLinkUp ]_vars

\* A poll has decoded a changed response after the notification cycle
\* consumed the flag of the connection update, and the flag is set.
C11_Witness ==
    /\ dl_pc = "loop"
    /\ currentState.m_isValid
    /\ cachedWords = DecodeWords(status_response)
    /\ updateWaiters
    /\ statusUpdated

(***************************************************************************)
(* C13: one request in flight                                              *)
(***************************************************************************)
\* C13: at most one request written to the monitor is waiting for its answer
\* or its receive timeout at any time.
C13_OneInFlight ==
    Len(inFlight) <= 1

\* A command is in flight after a status request and an earlier command.
C13_Witness ==
    /\ dl_pc = "ack"
    /\ Len(inFlight) = 1
    /\ Len(wire) = 2
    /\ currentState.m_isValid

(***************************************************************************)
(* C14: the order of the commands on the wire                              *)
(***************************************************************************)
RECURSIVE IsSubsequence(_, _)
\* a is b with some of its elements left out.
IsSubsequence(a, b) ==
    IF a = <<>> THEN TRUE
    ELSE IF b = <<>> THEN FALSE
    ELSE IF Head(a) = Head(b) THEN IsSubsequence(Tail(a), Tail(b))
    ELSE IsSubsequence(a, Tail(b))

\* The commands that were popped, in the order they entered the queue.
Popped ==
    SubSeq(entered, 1, Len(entered) - Len(cqShadow))

\* C14: the frames written to the monitor are, in this order, the frames of
\* the commands in the order they entered the queue (a popped command whose
\* write fails is left out).
C14_WireOrder ==
    IsSubsequence(wire, [i \in 1 .. Len(Popped) |-> EncodePayload(Popped[i])])

\* Commands of both producers were written, the second is in flight.
C14_Witness ==
    /\ Len(wire) = 2
    /\ wire[1] # wire[2]
    /\ dl_pc = "ack"

(***************************************************************************)
(* C18: a repeated status response                                         *)
(***************************************************************************)
\* C18 as stated: a status poll whose response is identical to the response
\* decoded before it changes neither the store, nor the cached words, nor
\* the dirty flag.
C18_RepeatedResponseNoOp ==
    [][ \A r \in MonitorResponses :
          PollRecv(r) /\ r = status_response => UNCHANGED storeVars ]_vars

\* C18 amended: the same, for a poll over the connection over which the
\* response was decoded before (the store is valid).
C18_RepeatedResponseSameConnection ==
    [][ \A r \in MonitorResponses :
          PollRecv(r) /\ r = status_response /\ currentState.m_isValid
            => UNCHANGED storeVars ]_vars

\* A response was decoded, the flag consumed, and the monitor answers the
\* next poll over the same connection.
C18_Witness ==
    /\ dl_pc = "recv"
    /\ currentState.m_isValid
    /\ status_response \in MonitorResponses
    /\ monitorConnected
    /\ linkStatus = "LinkON"
    /\ ~statusUpdated

(***************************************************************************)
(* C12: the copy addStatus takes                                           *)
(***************************************************************************)
\* addStatus has copied the whole structure and has not given the mutex yet.
SnapshotTaken ==
    lk_pc["web"].at \in {"snap", "wsnap"} /\ lk_pc["web"].step = "give"

\* loop() has written some fields of an update and not yet the others.
UpdateHalfApplied ==
    lk_pc["loop"].step = "2"

\* C12: the copy addStatus takes is currentState as it stands at the instant
\* the copy is complete, and at that instant no status-decode, link-down or
\* connect update is half applied.
C12_SnapshotAtomic ==
    SnapshotTaken => state = currentState /\ ~UpdateHalfApplied

\* A decoded status has been copied for a waiter while loop() waits for the
\* mutex to apply the next one.
C12_Witness ==
    /\ At("web", "wsnap", "give")
    /\ state.m_isValid
    /\ state.m_isPowered
    /\ At("loop", "upd", "take")

(***************************************************************************)
(* C19: the mutex around the shared structures                             *)
(***************************************************************************)
\* C19: every step that reads or writes currentState or the dirty flag,
\* pushes or pops commandQueue, or pushes, drains or evicts statusWaiters is
\* taken by the task that holds state_sem.
C19_AccessUnderLock ==
    [][ /\ (currentState' # currentState \/ statusUpdated' # statusUpdated
              \/ commandQueue' # commandQueue) => holder = "loop" \/ holder = "web"
                                                  \/ holder = "keys"
        /\ statusWaiters' # statusWaiters => holder = "web"
        /\ LedBlink => holder = "statusLEDBlinker" ]_vars

(***************************************************************************)
(* C20: what happens under the mutex                                       *)
(***************************************************************************)
\* The task is between an xSemaphoreTake and the xSemaphoreGive after it.
InRegion(t) ==
    lk_pc[t].step \in {"1", "2", "give"}

\* The task does device I/O, transport I/O, or delays.
IoStep(t) ==
    \/ /\ t = "loop"
       /\ \/ LkLoopTop
          \/ LkWaitLink
          \/ LkConnect
          \/ LkPollWrite
          \/ \E r \in PollOutcomes : LkPollRecv(r)
          \/ LkSend
    \/ /\ t = "web"
       /\ \/ \E kind \in LockRequests : LkAccept(kind)
          \/ LkRespond
          \/ LkDeliver
    \/ /\ t = "keys"
       /\ LkSample

\* The place of a step in its region.
Rank(st) ==
    CASE st = "1" -> 1 [] st = "2" -> 2 [] st = "give" -> 3 [] OTHER -> 0

\* C20: a task holds state_sem only between a take and the give after it,
\* where it does no I/O, no delay and no second take; and every take is
\* followed by the give: the holder can always take its next step, and each
\* of its steps brings it nearer to the give or is the give.
C20_LockHeldBriefly ==
    /\ [](\A t \in LockTasks : holder = t => InRegion(t) /\ ENABLED RegionStep(t))
    /\ [][\A t \in LockTasks :
            /\ IoStep(t) \/ LockTake(t) => holder # t
            /\ holder = t /\ lk_pc'[t] # lk_pc[t] =>
                 \/ holder' = t /\ Rank(lk_pc'[t].step) > Rank(lk_pc[t].step)
                 \/ holder' = "none" /\ lk_pc[t].step = "give"]_vars

\* The key task holds the mutex with its command pushed while loop() and the
\* web task wait for it.
C20_Witness ==
    /\ holder = "keys"
    /\ At("keys", "key", "give")
    /\ Len(entered) = 1
    /\ lk_pc["loop"].step = "take"
    /\ lk_pc["web"].step = "take"

(***************************************************************************)
(* C15: startup without the Ethernet module                                *)
(***************************************************************************)
\* C15: when the Ethernet module does not answer, setup never goes past its
\* check: no task is created, loop() never runs (no connection to the
\* monitor, nothing written to it), and once the check was made the LED is
\* steadily on.
C15_HaltWithoutHardware ==
    hardware = "EthernetNoHardware" =>
        /\ boot_pc \in {"pins", "ethernet", "halt"}
        /\ tasks = {}
        /\ dl_pc = "loop"
        /\ ~monitorConnected
        /\ wire = <<>>
        /\ inFlight = <<>>
        /\ commandQueue = Queue(MAX_QUEUELEN)
        /\ (boot_pc = "halt" => ledPattern = "On")

\* setup has halted with the LED on.
C15_Witness ==
    /\ hardware = "EthernetNoHardware"
    /\ boot_pc = "halt"
    /\ ledPattern = "On"

(***************************************************************************)
(* C16: the keys and the WiFi state                                        *)
(***************************************************************************)
\* C16: with the Ethernet module present the key task is started, whatever
\* the WiFi does.
C16_KeysAlwaysWork ==
    (hardware = "EthernetW5500") ~> ("buttonHandler" \in tasks)

(***************************************************************************)
(* C17: the LED                                                            *)
(***************************************************************************)
\* The pattern the file header gives for the state of the program.
LedDocumented ==
    IF hardware = "EthernetNoHardware" THEN "On"
    ELSE IF settingUp THEN "Off"
    ELSE IF wifiEnabled /\ (boot_pc = "wifiWait" \/ ~wifiConnected) THEN "1 Short"
    ELSE IF ~currentState.m_linkUp THEN "2 Short"
    ELSE IF ~currentState.m_connected THEN "3 Short"
    ELSE "Blinking 50/50"

\* C17: whenever the LED is driven, it shows the pattern the file header
\* gives for the state of the program.
C17_LedAsDocumented ==
    [][LedBlink \/ ledPattern' # ledPattern => ledPattern' = LedDocumented']_vars

(***************************************************************************)
(* The device link alone: loop() with waitLink(), connectMonitor() with    *)
(* its failed attempts, and the polls, no command being queued; the link   *)
(* layer and the monitor as environment, and the notification cycle as the *)
(* consumer of the dirty flag.                                             *)
(***************************************************************************)
\* A response whose twenty word bytes are all '?' (0x3F).
UnknownResponse ==
    StatusResponse(<<63, 63, 63, 63>>, <<63, 63, 63, 63>>, <<63, 63, 63, 63>>,
                   <<63, 63, 63, 63>>, <<63, 63, 63, 63>>)

\* The responses the monitor gives in this specification.
ConnResponses == MonitorResponses \cup {UnknownResponse}

ConnOutcomes == {RecvTimeout} \cup ConnResponses

ConnLoop ==
    \/ LoopLinkOff
    \/ WaitLinkUp
    \/ ConnectMonitorBegin
    \/ ConnectFail
    \/ ConnectSucceed
    \/ ConnectFirstPoll
    \/ LoopPop
    \/ LoopPoll
    \/ \E r \in ConnOutcomes : PollRecv(r)

ConnNext ==
    \/ ConnLoop
    \/ LinkWeb
    \/ LinkEnvironment

SpecConn == Init /\ [][ConnNext]_vars

\* loop() runs forever: every call it makes returns or retries, and each
\* iteration ends with a delay.  Nothing is assumed of the link layer or of
\* the monitor.
FairConn == SpecConn /\ WF_vars(ConnLoop)

(***************************************************************************)
(* C21: the link layer is down                                             *)
(***************************************************************************)
\* The store says link down, not connected, not valid.
LinkLossShown ==
    /\ ~currentState.m_linkUp
    /\ ~currentState.m_connected
    /\ ~currentState.m_isValid

\* C21: when loop() finds the link layer down it stops the monitor connection
\* and clears link-up, connected and valid in one update that sets the dirty
\* flag; until the link layer reports up it neither connects nor writes to
\* the monitor nor touches the store again; when it goes on, the link layer
\* reported up and link-up is set with the dirty flag.
C21_LinkDownHandled ==
    [][ /\ (dl_pc = "loop" /\ linkStatus = "LinkOFF" /\ dl_pc' # dl_pc) =>
             /\ dl_pc' = "waitLink"
             /\ ~monitorConnected'
             /\ LinkLossShown'
             /\ currentState' = [currentState EXCEPT !.m_linkUp = FALSE,
                                                     !.m_connected = FALSE,
                                                     !.m_isValid = FALSE]
             /\ statusUpdated'
        /\ dl_pc = "waitLink" =>
             /\ ~monitorConnected'
             /\ UNCHANGED <<wire, inFlight, attempts>>
             /\ dl_pc' = "waitLink" =>
                  /\ currentState' = currentState
                  /\ statusUpdated' => statusUpdated
             /\ dl_pc' # "waitLink" =>
                  /\ linkStatus = "LinkON"
                  /\ currentState' = [currentState EXCEPT !.m_linkUp = TRUE]
                  /\ statusUpdated' ]_vars

\* A connection over which a status was decoded was torn down by a link
\* loss; the link came back and link-up is set again, with the dirty flag.
C21_Witness ==
    /\ dl_pc = "checkConn"
    /\ answered
    /\ ~monitorConnected
    /\ currentState.m_linkUp
    /\ ~currentState.m_connected
    /\ ~currentState.m_isValid
    /\ statusUpdated

(***************************************************************************)
(* C22: a link loss is shown                                               *)
(***************************************************************************)
\* C22: from any moment on from which the link layer stays down, the store
\* eventually says link down, not connected and not valid.
C22_LinkLossShown ==
    []([](linkStatus = "LinkOFF") => <>LinkLossShown)

(***************************************************************************)
(* C23: the connection is retried for ever                                 *)
(***************************************************************************)
\* C23: connectMonitor() leaves its connect loop only with a connection, and
\* then the store says connected and the dirty flag is set; until then the
\* store is left alone and a further attempt can always be made.  So once
\* an attempt succeeds, the store shows connected with the dirty flag.
C23_RetriedForever ==
    /\ [][ dl_pc = "connect" =>
             \/ /\ dl_pc' = "connect"
                /\ ~monitorConnected'
                /\ currentState' = currentState
             \/ /\ dl_pc' = "firstPoll"
                /\ monitorConnected'
                /\ currentState' = [currentState EXCEPT !.m_connected = TRUE]
                /\ statusUpdated' ]_vars
    /\ [](dl_pc = "connect" => ENABLED ConnectFail)
    /\ []((dl_pc = "connect" /\ <>monitorConnected)
            => <>(currentState.m_connected /\ statusUpdated))

\* The connection was made after MaxAttempts failed attempts.
C23_Witness ==
    /\ dl_pc = "firstPoll"
    /\ attempts = MaxAttempts
    /\ monitorConnected
    /\ currentState.m_connected
    /\ statusUpdated

(***************************************************************************)
(* C24: the first poll of a connection                                     *)
(***************************************************************************)
\* C24: the first response decoded after connectMonitor() reset the words
\* is written to the store whatever its words are: the fields are those of
\* the decoded words, valid is true and the dirty flag is set.
C24_FirstPollRegisters ==
    [][ \A r \in ConnResponses :
          (PollRecv(r) /\ ~answered) =>
             /\ currentState' = ApplyWords(currentState, DecodeWords(r))
             /\ currentState'.m_isValid
             /\ statusUpdated' ]_vars

(***************************************************************************)
(* C25: a poll that times out                                              *)
(***************************************************************************)
\* loop() issues the status request at its poll step.
PollDue ==
    LoopPoll /\ inFlight' = Append(inFlight, GetStatusPayload)

\* C25: a status poll that ends with the receive timeout leaves the store,
\* the cached words, the dirty flag, the response buffer and the connection
\* as they were and returns to loop(), whose next poll step can issue the
\* status request again.
C25_TimeoutChangesNothing ==
    /\ [][ PollRecv(RecvTimeout) =>
             /\ UNCHANGED <<currentState, cachedWords, statusUpdated, status_response,
                            monitorConnected>>
             /\ dl_pc' = "loop" ]_vars
    /\ [](dl_pc = "poll" => ENABLED PollDue)

\* The first poll of a connection has timed out: loop() is back at its top
\* over the same connection, nothing was decoded and the words are unknown.
C25_Witness ==
    /\ dl_pc = "loop"
    /\ ~answered
    /\ inFlight = <<>>
    /\ monitorConnected
    /\ currentState.m_connected
    /\ ~currentState.m_isValid
    /\ cachedWords = UnknownWords

(***************************************************************************)
(* C26: one command per iteration of loop(), and its place in it           *)
(***************************************************************************)
\* loop() is sending the command it popped in this iteration.
Sending == dl_pc \in {"send", "ack"}

\* An entry leaves the command queue in this step.
PopStep == Len(cqShadow') < Len(cqShadow)

\* Commands leave the queue only at the top of an iteration of loop() that
\* finds the connection established, one per iteration, the oldest first.
OnePopPerIteration ==
    PopStep =>
       /\ AtConnectedTest
       /\ monitorConnected
       /\ cqShadow' = Tail(cqShadow)
       /\ cmd' = Head(cqShadow)
       /\ dl_pc' = "send"

\* C26 as stated: at most one command is popped in an iteration of loop(),
\* and its pop and send come after the poll step of that iteration: when the
\* send is over the iteration is over, and loop() is at its top again.
C26_PopAfterPoll ==
    [][ /\ OnePopPerIteration
        /\ (Sending /\ ~Sending') => dl_pc' = "loop" ]_vars

\* C26 amended: at most one command is popped in an iteration of loop(), and
\* its pop and send come before the poll step of that iteration: when the
\* send is over loop() is at its poll step.
C26_PopBeforePoll ==
    [][ /\ OnePopPerIteration
        /\ (Sending /\ ~Sending') => dl_pc' = "poll" ]_vars

\* A command was popped and written in this iteration, and the status
\* request of the same iteration is waiting for its answer.
C26_Witness ==
    /\ dl_pc = "recv"
    /\ cmd # NULL
    /\ wire # <<>>
    /\ wire[Len(wire)] = EncodePayload(cmd)
    /\ inFlight = <<GetStatusPayload>>

(***************************************************************************)
(* C27: a popped command is written once at most                           *)
(***************************************************************************)
\* C27: a frame is written only by the send that follows a pop, the send of
\* a command ends with its write (failed or not) and the wait for the
\* acknowledgement (answered or not) and is not begun again, the queue grows
\* only by a producer's push, and every accepted push adds an entry of its
\* own, whether an equal command is stored or not.
C27_SentAtMostOnce ==
    [][ /\ wire' # wire =>
             /\ dl_pc = "send"
             /\ wire' = Append(wire, EncodePayload(cmd))
             /\ dl_pc' = "ack"
        /\ (dl_pc' = "send" /\ dl_pc # "send") => PopStep
        /\ (dl_pc = "send" /\ dl_pc' # "send") => dl_pc' \in {"ack", "poll"}
        /\ (dl_pc = "ack" /\ dl_pc' # "ack") => (dl_pc' = "poll" /\ wire' = wire)
        /\ commandQueue'.m_count > commandQueue.m_count =>
             Len(entered') = Len(entered) + 1
        /\ Len(entered') > Len(entered) =>
             /\ commandQueue'.m_count = commandQueue.m_count + 1
             /\ QueueContents(commandQueue') =
                  Append(QueueContents(commandQueue), entered'[Len(entered')]) ]_vars

\* The same command was pushed twice and both were written, each once.
C27_Witness ==
    /\ Len(entered) = 2
    /\ entered[1] = entered[2]
    /\ Len(wire) = 2
    /\ wire[1] = wire[2]
    /\ cqShadow = <<>>
    /\ dl_pc = "poll"

(***************************************************************************)
(* The decoding of the status response: loop() connects and polls a        *)
(* monitor that answers with any of a set of responses whose word bytes    *)
(* are '0' .. '?'.                                                          *)
(***************************************************************************)
\* The #define ..._STATUS masks: the field of State_t updateStatus() writes
\* from each, with the number of the status word and the mask.
StatusMasks ==
    [m_isPowered    |-> <<1, 32768>>,
     m_scanmode     |-> <<1, 1024>>,
     m_hdelay       |-> <<1, 512>>,
     m_vdelay       |-> <<1, 256>>,
     m_monochrome   |-> <<1, 128>>,
     m_charmute     |-> <<1, 64>>,
     m_marker       |-> <<1, 32>>,
     m_extsync      |-> <<1, 16>>,
     m_apt          |-> <<1, 8>>,
     m_chromaup     |-> <<1, 4>>,
     m_aspect       |-> <<1, 2>>,
     m_coltemp      |-> <<3, 64>>,
     m_comb         |-> <<3, 32>>,
     m_blueonly     |-> <<3, 16>>,
     m_rcutoff      |-> <<3, 4>>,
     m_gcutoff      |-> <<3, 2>>,
     m_bcutoff      |-> <<3, 1>>,
     m_man_phase    |-> <<4, 128>>,
     m_man_chroma   |-> <<4, 64>>,
     m_man_bright   |-> <<4, 32>>,
     m_man_contrast |-> <<4, 16>>]

\* The masks of status word k.
MasksOf(k) ==
    { StatusMasks[f][2] : f \in { g \in DOMAIN StatusMasks : StatusMasks[g][1] = k } }

RECURSIVE SumOf(_)
SumOf(S) == IF S = {} THEN 0 ELSE LET x == CHOOSE y \in S : TRUE IN x + SumOf(S \ {x})

\* The values status word k takes in the responses: no bit, each masked bit
\* alone, every bit that has no mask, and every bit.
WordValues(k) ==
    {0, 65535} \cup MasksOf(k) \cup {65535 - SumOf(MasksOf(k))}

\* The four bytes the monitor sends for a status word: its hexadecimal
\* digits, most significant first, as the characters '0' (0x30) .. '?' (0x3F).
MonitorWord(w) ==
    <<48 + (w \div 4096), 48 + ((w \div 256) % 16), 48 + ((w \div 16) % 16), 48 + (w % 16)>>

\* The response that carries the words w[1] .. w[5].
ResponseOf(w) ==
    StatusResponse(MonitorWord(w[1]), MonitorWord(w[2]), MonitorWord(w[3]),
                   MonitorWord(w[4]), MonitorWord(w[5]))

\* The responses of this specification: one word takes each of its values
\* while the other four are all zero or all ones.
DecodeResponses ==
    UNION { UNION { { ResponseOf([[i \in 1 .. 5 |-> base] EXCEPT ![k] = v]) :
                        v \in WordValues(k) } : k \in 1 .. 5 } : base \in {0, 65535} }

DecodeNext ==
    \/ ConnectMonitorBegin
    \/ ConnectSucceed
    \/ ConnectFirstPoll
    \/ LoopPop
    \/ LoopPoll
    \/ \E r \in {RecvTimeout} \cup DecodeResponses : PollRecv(r)

SpecDecode == Init /\ [][DecodeNext]_vars

(***************************************************************************)
(* C28: the status words and the fields decoded from them                  *)
(***************************************************************************)
\* The 0-based offsets of the first byte of words 1 .. 5 in the response.
WordOffsets == <<29, 34, 39, 44, 49>>

\* Word k of the response as the claim computes it, from the bytes at
\* 0-based offsets o .. o + 3 (the response is indexed from 1).
ClaimWord(bytes, k) ==
    LET o == WordOffsets[k]
    IN  (bytes[o + 1] - 48) * 4096 + (bytes[o + 2] - 48) * 256
        + (bytes[o + 3] - 48) * 16 + (bytes[o + 4] - 48)

\* Which of the four digits of a word holds the bit of a one-bit mask (0: the
\* most significant), and the value of that bit within the digit.
MaskDigit(mask) ==
    IF mask >= 4096 THEN 0 ELSE IF mask >= 256 THEN 1 ELSE IF mask >= 16 THEN 2 ELSE 3

MaskBitInDigit(mask) ==
    IF mask >= 4096 THEN mask \div 4096
    ELSE IF mask >= 256 THEN mask \div 256
    ELSE IF mask >= 16 THEN mask \div 16 ELSE mask

\* word & mask != 0, read from the bytes of the response.
ResponseBit(bytes, k, mask) ==
    (((bytes[WordOffsets[k] + 1 + MaskDigit(mask)] - 48) \div MaskBitInDigit(mask)) % 2) = 1

\* C28: for every response whose word bytes are 0x30 .. 0x3F, a poll that
\* finds the words changed caches, as word k, (b0-0x30)*4096 + (b1-0x30)*256
\* + (b2-0x30)*16 + (b3-0x30) of the four bytes at offsets 29, 34, 39, 44, 49,
\* and sets every DeviceState boolean to (word & mask != 0) for its mask in
\* word 1, 3 or 4; the fields so written are all the fields but link-up,
\* connected and valid, so that words 2 and 5 reach no field; valid is set,
\* link-up and connected are left alone.
C28_DecodedAsDocumented ==
    [][ \A r \in DecodeResponses :
          (PollRecv(r) /\ DecodeWords(r) # cachedWords) =>
             /\ cachedWords' = [k \in 1 .. 5 |-> ClaimWord(r, k)]
             /\ \A f \in DOMAIN StatusMasks :
                  /\ StatusMasks[f][1] \in {1, 3, 4}
                  /\ currentState'[f] = ResponseBit(r, StatusMasks[f][1], StatusMasks[f][2])
             /\ DOMAIN currentState =
                  DOMAIN StatusMasks \cup {"m_linkUp", "m_connected", "m_isValid"}
             /\ currentState'.m_isValid
             /\ currentState'.m_linkUp = currentState.m_linkUp
             /\ currentState'.m_connected = currentState.m_connected ]_vars

\* A poll decoded a response with the power bit alone in word 1 and every
\* bit in words 2 to 5: of the fields of word 1 only power is shown, and
\* every field of words 3 and 4.
C28_Witness ==
    /\ dl_pc = "loop"
    /\ status_response = ResponseOf(<<32768, 65535, 65535, 65535, 65535>>)
    /\ cachedWords = <<32768, 65535, 65535, 65535, 65535>>
    /\ currentState.m_isValid
    /\ \A f \in DOMAIN StatusMasks :
         currentState[f] = (f = "m_isPowered" \/ StatusMasks[f][1] # 1)

(***************************************************************************)
(* The texts of the queued commands: every producer of the CommandQueue    *)
(* (the /toggle/, /infopush/ and /turnknob/ branches of handleReq and the  *)
(* key task) with requests of every length class, and loop() draining the  *)
(* queue to the monitor.                                                   *)
(***************************************************************************)
\* Bound: the commands the producers push in one behaviour.
MaxTexts == 1

\* A name of COMMAND_LEN - 1 characters, and one of COMMAND_LEN characters.
\* Command_t is padded to 32 bytes and the queue copies all of them, so a
\* text of up to 27 characters is stored and read back whole.
Name24 == "ABCDEFGHIJKLMNOPQRSTUVWX"

Name25 == Name24 \o "Y"

\* The button names requested through /toggle/ and /infopush/.
TextButtons == {"POWER", Name24, Name25}

\* The knob requests: knob, direction, and factor and ticks as written in
\* the URL.
TextKnobs ==
    [knob : {"PHASE", "BRIGHTNESS"}, dir : {"p", "n"},
     factor : {"10", "1000"}, ticks : {"5", "1000"}]

\* The pins of the key matrix that are keys.
TextKeys ==
    {"KEY_POWER", "INPUT_KEY_0", "INPUT_KEY_1", "INPUT_KEY_2", "INPUT_KEY_3",
     "INPUT_KEY_4", "INPUT_KEY_5", "INPUT_KEY_6", "INPUT_KEY_7", "INPUT_KEY_8",
     "INPUT_KEY_9", "INPUT_KEY_ENT", "INPUT_KEY_DEL", "NAV_KEY_MENU",
     "NAV_KEY_ENTER", "NAV_KEY_UP", "NAV_KEY_DOWN"}

TextProducers ==
    /\ Len(entered) < MaxTexts
    /\ \/ \E b \in TextButtons : HandleToggle(toggleURL \o b)
       \/ \E b \in TextButtons : HandleInfoPush(infoPushURL \o b)
       \/ \E r \in TextKnobs : HandleTurnKnob(KnobUrl(r))
       \/ \E k \in TextKeys : PushButton(k)

TextLoop ==
    \/ ConnectMonitorBegin
    \/ ConnectSucceed
    \/ ConnectFirstPoll
    \/ LoopPop
    \/ LoopSend
    \/ LoopAck
    \/ LoopPoll
    \/ \E r \in PollOutcomes : PollRecv(r)

TextNext ==
    \/ TextProducers
    \/ LinkWeb
    \/ TextLoop

SpecText == Init /\ [][TextNext]_vars

\* The text the knob command is documented to carry for a request.
KnobText(r) ==
    "R " \o r.knob \o " 96/" \o (IF r.dir = "n" THEN "-" ELSE "") \o r.factor
         \o "/" \o r.ticks

\* C29: an accepted knob request determines its command, and through it the
\* payload sent when the queue is drained, by its four arguments alone: the
\* command queued for knob, direction, factor and ticks is
\* "R <KNOB> 96/<factor>/<ticks>" (with "-" before the factor for reverse),
\* and the payload written for a knob command is "INFOknob " followed by
\* the command's text.
C29_KnobPayload ==
    [][ /\ \A r \in TextKnobs :
             (HandleTurnKnob(KnobUrl(r)) /\ resp' = 200) =>
                /\ Len(entered') = Len(entered) + 1
                /\ entered'[Len(entered')] = Command_t("CT_INFOKNOB", KnobText(r))
        /\ (wire' # wire /\ cmd.m_commandType = "CT_INFOKNOB") =>
             \E i \in DOMAIN entered, r \in TextKnobs :
                /\ req = KnobUrl(r) \/ i < Len(entered)
                /\ entered[i] = cmd
                /\ wire' = Append(wire, "INFOknob " \o KnobText(r)) ]_vars

\* C30: every command that entered the CommandQueue, and every command the
\* queue holds, has a text of at most COMMAND_LEN - 1 characters, which with
\* its terminator fits the command field.
C30_CommandFits ==
    /\ \A i \in DOMAIN entered : Len(entered[i].m_command) < COMMAND_LEN
    /\ \A i \in DOMAIN cqShadow : Len(cqShadow[i].m_command) < COMMAND_LEN

(***************************************************************************)
(* buttonHandler: the cycles of the key task, each sampling every key and  *)
(* pushing the commands of the keys that went from clear to set.           *)
(***************************************************************************)
\* The keys that are pressed in this specification; the others read LOW.
SampledKeys == {"KEY_POWER", "NAV_KEY_MENU"}

\* pushButton() called for each key of ks in turn: the queue, and the
\* record of what entered it, after the calls.
RECURSIVE PushButtons(_, _)
PushButtons(st, ks) ==
    IF ks = <<>> THEN st
    ELSE LET c == ButtonCommand(Head(ks))
         IN  PushButtons(IF QueueGetCount(st.q) < MAX_QUEUELEN /\ c # NULL
                         THEN [q       |-> QueuePush(st.q, c),
                               shadow  |-> Append(st.shadow, c),
                               entered |-> Append(st.entered, c)]
                         ELSE st,
                         Tail(ks))

\* The keys of the table, in its order, that the for loop of a cycle calls
\* pushButton() for: bit set in physicalKeyState, clear in prev.
RisingKeys(cur, prev) ==
    SelectSeq(physicalKeys, LAMBDA k : k \in cur /\ k \notin prev)

\* Mutant of SampleKeys: the sample is not stored as the previous one.
SampleKeys_PrevNotStored(levels) ==
    /\ "buttonHandler" \in tasks
    /\ LET rising == RisingKeys(levels, physicalKeyState_prev)
           r == PushButtons([q |-> commandQueue, shadow |-> cqShadow, entered |-> entered],
                            rising)
       IN  /\ commandQueue' = r.q
           /\ cqShadow' = r.shadow
           /\ entered' = r.entered
           /\ pushButtonCalls' = rising
    /\ physicalKeyState' = levels
    /\ UNCHANGED physicalKeyState_prev
    /\ UNCHANGED <<waiterVars, owed, storeVars, linkVars, webVars, now, lastOp, devAux,
                   lockVars, bootVars, ledPattern, histVars, inoVars, tookDirty>>

\* buttonHandler, one pass of while(1): every key is read (levels: the keys
\* whose pin reads HIGH) and its bit of physicalKeyState set or cleared;
\* pushButton() is called for a key whose bit is now set and is clear in
\* physicalKeyState_prev; then physicalKeyState_prev = physicalKeyState.
SampleKeys(levels) ==
    /\ "buttonHandler" \in tasks
    /\ LET rising == RisingKeys(levels, physicalKeyState_prev)
           r == PushButtons([q |-> commandQueue, shadow |-> cqShadow, entered |-> entered],
                            rising)
       IN  /\ commandQueue' = r.q
           /\ cqShadow' = r.shadow
           /\ entered' = r.entered
           /\ pushButtonCalls' = rising
    /\ physicalKeyState' = levels
    /\ physicalKeyState_prev' = levels
    /\ UNCHANGED <<waiterVars, owed, storeVars, linkVars, webVars, now, lastOp, devAux,
                   lockVars, bootVars, ledPattern, histVars, inoVars, tookDirty>>

KeysNext == \E levels \in SUBSET SampledKeys : SampleKeys(levels)

SpecKeys == Init /\ [][KeysNext]_vars

\* pushButton() was called for key k in the cycle that ended last.
Generated(k) == \E i \in DOMAIN pushButtonCalls : pushButtonCalls[i] = k

\* The commands of a sequence of keys.
CommandsOf(ks) == [i \in DOMAIN ks |-> ButtonCommand(ks[i])]

\* What a cycle does for every reading: a command is generated for a key
\* exactly when its bit is set in the current sample and clear in the
\* previous one, once, and it enters the queue while the queue has room; the
\* current sample then is the previous one.
EdgeCycle(levels) ==
    /\ physicalKeyState' = levels
    /\ \A k \in AllKeyBits :
         Generated(k)' <=> (k \in levels /\ k \notin physicalKeyState_prev)
    /\ \A i, j \in DOMAIN pushButtonCalls' :
         pushButtonCalls'[i] = pushButtonCalls'[j] => i = j
    /\ QueueGetCount(commandQueue) + Len(pushButtonCalls') <= MAX_QUEUELEN =>
         entered' = entered \o CommandsOf(pushButtonCalls')
    /\ physicalKeyState_prev' = levels

\* C31 as stated: in every cycle a command is generated for a key exactly
\* on current & ~previous, the current sample becomes the previous one, and
\* a key that stays set over consecutive cycles generates exactly one
\* command: a set sample generates a command exactly when it is the first
\* of its run, the sample before it (none, or one that was clear) not set.
C31_OneCommandPerRun ==
    [][ \A levels \in SUBSET SampledKeys :
          SampleKeys(levels) =>
             /\ EdgeCycle(levels)
             /\ \A k \in levels : Generated(k)' <=> k \notin physicalKeyState ]_vars

\* C31 as amended: as above, but a set sample generates a command exactly
\* when the sample before it was taken and was clear; a key that is set
\* from the first cycle on generates none, the previous sample starting as
\* all ones (until the first cycle physicalKeyState is 0 and differs from it).
C31_OneCommandPerPress ==
    [][ \A levels \in SUBSET SampledKeys :
          SampleKeys(levels) =>
             /\ EdgeCycle(levels)
             /\ \A k \in levels :
                  Generated(k)' <=> (/\ k \notin physicalKeyState
                                     /\ physicalKeyState_prev = physicalKeyState) ]_vars

\* C31 witness: the power key was sampled clear, then set, then set again:
\* one command was generated, none in the last cycle.
C31_Witness ==
    /\ physicalKeyState = {"KEY_POWER"}
    /\ physicalKeyState_prev = {"KEY_POWER"}
    /\ pushButtonCalls = <<>>
    /\ entered = <<Command_t("CT_STATUS", "POWER")>>

\* C32: in every cycle of the notification dispatcher the waiters are sent a
\* snapshot exactly when the dirty flag was taken in that cycle: a waiter is
\* answered 200 only in a cycle that took it, such a cycle empties the
\* registry and answers with 200 alone, and a cycle that did not take it
\* does no more than the eviction sweep.
C32_SnapshotIffDirtyTaken ==
    [][ CheckStatusDeliver =>
          /\ \A c \in 1 .. MaxClients :
               (signals'[c] # signals[c] /\ signals'[c][Len(signals'[c])].code = 200)
                  => tookDirty
          /\ tookDirty =>
               /\ WaiterGetCount(statusWaiters') = 0
               /\ \A c \in 1 .. MaxClients :
                    signals'[c] # signals[c] => signals'[c] = <<[code |-> 200]>>
          /\ ~tookDirty =>
               LET d == SweepWaiters(statusWaiters, now, <<>>)
               IN  /\ statusWaiters' = d.q
                   /\ signals' = SendAll(signals, d.out, [code |-> 204]) ]_vars

\* C33: a drain on a dirty cycle answers exactly the waiters that were
\* accepted and have had no response, each once, and leaves the registry
\* empty; and accepting a waiter keeps every waiter already registered in the
\* registry, the new one with them.
C33_DrainExact ==
    [][ /\ (CheckStatusDeliver /\ updateWaiters /\ WaiterGetCount(statusWaiters) > 0) =>
             /\ \A c \in 1 .. MaxClients :
                  signals'[c] = IF c \in Waiting THEN <<[code |-> 200]>> ELSE signals[c]
             /\ WaiterGetCount(statusWaiters') = 0
        /\ (HandleStatusWait(statusWaitURL) /\ resp' = 0) =>
             WaiterClients(statusWaiters') = Waiting \cup {nextClient} ]_vars

(***************************************************************************)
(* Revision src/bkm-15r.ino: the command queue is an array with a length,  *)
(* handleReq stores at the end under state_sem, and loop(), with the       *)
(* monitor connected, takes a pointer to the last entry under state_sem     *)
(* and sends what the pointer refers to after giving the semaphore.        *)
(***************************************************************************)
\* Bound: the commands stored in one behaviour.
MaxInoCommands == 3

\* The button names requested in this specification.
InoButtons == {"POWER", "MENU"}

\* What is left of the state when a step of this revision is taken.
inoRest == <<queueVars, cmd, wire, waiterVars, webVars, owed, storeVars, linkStatus,
             monitorConnected, dl_pc, now, lastOp, devAux, entered, lockVars, bootVars,
             ledPattern, histVars, keyVars, tookDirty>>

\* handleReq, url.startsWith(toggleURL) or (infoPushURL): the text after the
\* prefix and the type are stored in m_commands[m_queueLen] and the length
\* is advanced, when m_queueLen + 1 < MAX_QUEUELEN.
InoHandleReq(type, button) ==
    /\ LET c == Command_t(type, button)
       IN  IF ino_commandQueue.m_queueLen + 1 < INO_MAX_QUEUELEN
           THEN /\ ino_commandQueue' =
                     [m_commands |-> [ino_commandQueue.m_commands
                                        EXCEPT ![ino_commandQueue.m_queueLen] = c],
                      m_queueLen |-> ino_commandQueue.m_queueLen + 1]
                /\ ino_entered' = Append(ino_entered, c)
           ELSE UNCHANGED <<ino_commandQueue, ino_entered>>
    /\ UNCHANGED <<ino_cmd, ino_pc, ino_popped, ino_wire, inoRest>>

\* loop(), under state_sem: cmd = &m_commands[m_queueLen - 1] and the length
\* is decremented, when the queue holds a command.
InoLoopPop ==
    /\ ino_pc = "loop"
    /\ IF ino_commandQueue.m_queueLen > 0
       THEN /\ ino_cmd' = ino_commandQueue.m_queueLen - 1
            /\ ino_popped' = ino_commandQueue.m_commands[ino_commandQueue.m_queueLen - 1]
            /\ ino_commandQueue' =
                 [ino_commandQueue EXCEPT !.m_queueLen = ino_commandQueue.m_queueLen - 1]
       ELSE /\ ino_cmd' = InoNull
            /\ ino_popped' = NULL
            /\ UNCHANGED ino_commandQueue
    /\ ino_pc' = "send"
    /\ UNCHANGED <<ino_wire, ino_entered, inoRest>>

\* loop(), after the semaphore was given: if(NULL != cmd) the command is
\* sent by its type with cmd->m_command, read from the array now.
InoLoopSend ==
    /\ ino_pc = "send"
    /\ ino_wire' = IF ino_cmd # InoNull
                   THEN Append(ino_wire, ino_commandQueue.m_commands[ino_cmd])
                   ELSE ino_wire
    /\ ino_cmd' = InoNull
    /\ ino_pc' = "loop"
    /\ UNCHANGED <<ino_commandQueue, ino_popped, ino_entered, inoRest>>

InoProducers ==
    /\ Len(ino_entered) < MaxInoCommands
    /\ \E b \in InoButtons : InoHandleReq("CT_STATUS", b) \/ InoHandleReq("CT_INFO", b)

InoNext ==
    \/ InoProducers
    \/ InoLoopPop
    \/ InoLoopSend

SpecIno == Init /\ [][InoNext]_vars

\* s is the beginning of t.
IsPrefixOf(s, t) == Len(s) <= Len(t) /\ SubSeq(t, 1, Len(s)) = s

\* C34: in the revision bkm-15r.ino the loop consumes the queued commands
\* in the order they were stored: the command it takes is the oldest stored
\* command not yet taken, so that the commands written to the monitor are
\* at all times the first of the stored ones, in their order.
C34_InoFifo ==
    /\ IsPrefixOf(ino_wire, ino_entered)
    /\ ino_pc = "send" /\ ino_cmd # InoNull => ino_popped = ino_entered[Len(ino_wire) + 1]

\* How often command c occurs in sequence s.
Occurrences(s, c) == Cardinality({i \in DOMAIN s : s[i] = c})

\* C38: in the revision bkm-15r.ino, with a handler storing a command
\* between the loop's pop and its send, the command written is the one that
\* was popped (every step that writes to the monitor writes the command
\* the slot held when it was taken), and once the queue is empty and the
\* loop is between iterations every stored command was written exactly once.
C38_InoSendsWhatItPopped ==
    [][ /\ ino_wire' # ino_wire => ino_wire' = Append(ino_wire, ino_popped)
        /\ (ino_pc' = "loop" /\ ino_commandQueue'.m_queueLen = 0) =>
             \A c \in {ino_entered'[i] : i \in DOMAIN ino_entered'} :
                Occurrences(ino_wire', c) = Occurrences(ino_entered', c) ]_vars

\* C35: in every reachable state valid implies connected and connected
\* implies link-up.
C35_ValidConnectedLinkUp ==
    /\ currentState.m_isValid => currentState.m_connected
    /\ currentState.m_connected => currentState.m_linkUp

DrainProducers ==
    /\ Len(entered) < MaxCommands
    /\ \E k \in SampledKeys : PushButton(k)

DrainNext ==
    \/ DrainProducers
    \/ LinkLoop
    \/ LinkEnvironment

SpecDrain == Init /\ [][DrainNext]_vars

\* loop() ends every iteration with delay(10) and begins the next; every
\* wait in it is bounded or retried.
FairDrain == SpecDrain /\ WF_vars(LinkLoop)

\* loop() is waiting for the link or is in connectMonitor().
Reconnecting == dl_pc \in {"waitLink", "checkConn", "connect", "firstPoll"}

\* The link is up and the monitor connection stands.
Established == linkStatus = "LinkON" /\ monitorConnected

RingShape(q) ==
    /\ q.m_count \in 0 .. q.m_maxCount
    /\ q.m_head \in 0 .. q.m_maxCount - 1
    /\ q.m_tail \in 0 .. q.m_maxCount - 1
    /\ q.m_head = (q.m_tail + q.m_count) % q.m_maxCount

\* C39: both rings keep 0 <= count <= capacity, head < capacity,
\* tail < capacity and head = (tail + count) mod capacity, and a push that
\* stores an entry stores it count slots after tail, the slot the pop that
\* follows count earlier pops reads.
C39_RingBuffers ==
    /\ [](RingShape(commandQueue) /\ RingShape(statusWaiters))
    /\ [][ /\ commandQueue'.m_count = commandQueue.m_count + 1 =>
                commandQueue'.m_queueData[(commandQueue.m_tail + commandQueue.m_count)
                                            % commandQueue.m_maxCount]
                  = cqShadow'[Len(cqShadow')]
           /\ statusWaiters'.m_count = statusWaiters.m_count + 1 =>
                statusWaiters'.m_waiters[(statusWaiters.m_tail + statusWaiters.m_count)
                                           % statusWaiters.m_maxCount]
                  = StatusWaiter_t(nextClient, now) ]_vars

\* uint8_t packetBuf[50]
PacketBufLen == 50

\* sizeof(header) - 1, where the send functions begin to write.
HeaderLen == 12

\* dataLength when the send function calls write(): the header, the length
\* byte and the payload, counted in a uint8_t.
FrameLength(c) == (HeaderLen + 1 + Len(EncodePayload(c))) % 256

\* The index after the last byte of packetBuf the send function wrote.
FrameEnd(c) == HeaderLen + 1 + Len(EncodePayload(c))

\* C40: a command taken from the queue whose text has at most 24 characters,
\* of any of the three types, is encoded into a frame (12-byte header, length
\* byte, keyword, separators, text and the TOGGLE suffix of a toggle) that
\* ends within the 50 bytes of packetBuf and whose length the 8-bit counter
\* holds.
C40_FrameFits ==
    (dl_pc = "send" /\ Len(cmd.m_command) < COMMAND_LEN) =>
        /\ FrameEnd(cmd) <= PacketBufLen
        /\ FrameLength(cmd) = FrameEnd(cmd)

====
